---- MODULE Spec2Model ----
(***************************************************************************)
(* A model of the battle-capable GameEngine of alcime/cellm                *)
(* (src/src/engine/GameEngine.ts, the class that starts at line 907) and   *)
(* of the Simple AI strategy it registers for 'enemy'.                     *)
(*                                                                         *)
(* Numbers: JavaScript numbers are modelled as exact rationals <<n, d>>    *)
(* (d > 0, lowest terms); floating-point rounding is not modelled.  Time   *)
(* (Date.now()) is an integer number of milliseconds.                      *)
(***************************************************************************)
EXTENDS Integers, Sequences, FiniteSets, TLC

(***************************************************************************)
(* Exact rational arithmetic                                               *)
(***************************************************************************)
Abs(x) == IF x < 0 THEN -x ELSE x

RECURSIVE GCD(_, _)
GCD(a, b) == IF b = 0 THEN a ELSE GCD(b, a % b)

Rat(n, d) ==
  LET g == GCD(Abs(n), Abs(d))
      s == IF d < 0 THEN -1 ELSE 1
  IN  <<(s * n) \div g, (s * d) \div g>>

R(n) == <<n, 1>>
Zero == R(0)
One == R(1)

RAdd(p, q) == Rat(p[1] * q[2] + q[1] * p[2], p[2] * q[2])
RSub(p, q) == Rat(p[1] * q[2] - q[1] * p[2], p[2] * q[2])
RMul(p, q) == Rat(p[1] * q[1], p[2] * q[2])
RDiv(p, q) == Rat(p[1] * q[2], p[2] * q[1])
RLt(p, q) == p[1] * q[2] < q[1] * p[2]
RLe(p, q) == p[1] * q[2] <= q[1] * p[2]
RMin(p, q) == IF RLt(q, p) THEN q ELSE p
RMax(p, q) == IF RLt(p, q) THEN q ELSE p
RFloor(p) == p[1] \div p[2]
RCeil(p) == -((-p[1]) \div p[2])

RECURSIVE RSum(_)
RSum(seq) == IF seq = <<>> THEN Zero ELSE RAdd(Head(seq), RSum(Tail(seq)))

(* x || y of JavaScript on numbers: 0 is falsy *)
OrElse(x, y) == IF x = Zero THEN y ELSE x

(***************************************************************************)
(* Bounds of the model                                                     *)
(***************************************************************************)
MaxTicks == 8
MaxSends == 2
MaxControl == 2

(***************************************************************************)
(* Configuration and program constants                                     *)
(***************************************************************************)
(* The GameConfig the engine is constructed with: unitSpeed and           *)
(* productionInterval (seconds).  The application's defaults are 0.8 and 3;  *)
(* this configuration is ten times faster, so that with frames capped at     *)
(* 100 ms a unit arrives after 2 frames and production runs every 3 frames.  *)
unitSpeed == <<2, 25>>
productionInterval == <<3, 10>>
(* sendUnits: const targetTravelTime = 2.5 *)
targetTravelTime == <<5, 2>>
(* start: deltaTime = Math.min(deltaTime, 0.1) *)
maxDeltaTime == <<1, 10>>
(* calculateBattleDuration *)
minDuration == 4
maxDuration == 10
(* start: if (this.aiTimer >= 2) *)
aiInterval == 2
(* processBattleDamage / resolveBattle: timeInBattle / 0.1 *)
rampUp == <<1, 10>>
(* BaseAIStrategy.findClosestNonAllyCell: neighborRange = 180 *)
neighborRange == 180
(* AggressiveAIStrategy.findWeakestTarget: distance < 300 *)
aggressiveRange == 300

(* The cell-type catalog of createDefaultCellTypes; maxUnits 0 = undefined. *)
(* A cell carries its type, and a map may bring types of its own (CellType *)
(* in types.ts): depot is one with a cap, ruin one that produces nothing.  *)
CellTypes ==
  [standard |-> [productionMultiplier |-> R(1), defenseBonus |-> R(1), maxUnits |-> Zero],
   factory  |-> [productionMultiplier |-> R(2), defenseBonus |-> R(1), maxUnits |-> Zero],
   fortress |-> [productionMultiplier |-> R(1), defenseBonus |-> <<3, 2>>, maxUnits |-> Zero],
   depot    |-> [productionMultiplier |-> R(2), defenseBonus |-> R(1), maxUnits |-> R(5)],
   ruin     |-> [productionMultiplier |-> R(0), defenseBonus |-> R(1), maxUnits |-> Zero]]

Cell(id, x, y, n, owner, type) ==
  [id |-> id, position |-> <<x, y>>, units |-> R(n), owner |-> owner, type |-> type]

(* The cell lists a map loader hands to setCells *)
InitialMaps ==
  { << Cell("A", 0, 0, 6, "player", "standard"),
       Cell("B", 100, 0, 4, "neutral", "fortress"),
       Cell("C", 200, 0, 4, "enemy", "standard") >> }

(* Arguments callers pass to sendUnits; "Z" is the id of no cell *)
CellIds == {"A", "B", "C", "Z"}
SendCounts == {3, 6}
(* Milliseconds of wall-clock time between two frames *)
Advances == {1900}

NoId == "none"

(* no call of calculateBattleDuration observed *)
NoProbe == [a |-> Zero, d |-> Zero, done |-> FALSE, out |-> [kind |-> "num", val |-> Zero]]

(* no second engine *)
NoTwin ==
  [cells |-> <<>>, units |-> <<>>, paths |-> <<>>, battles |-> <<>>,
   gamePhase |-> "setup", winner |-> NoId, nextId |-> 0, events |-> <<>>]

(* getState() not called *)
NoSnapshot ==
  [taken |-> FALSE,
   returned |-> [cells |-> <<>>, units |-> <<>>, battles |-> <<>>],
   seen |-> [cells |-> <<>>, units |-> <<>>, battles |-> <<>>],
   sharesUnits |-> FALSE, sharesBattles |-> FALSE]

VARIABLES
  cells,            \* state.cells
  units,            \* state.units: the transit list
  paths,            \* state.paths
  battles,          \* state.battles
  gamePhase,        \* state.gamePhase
  winner,           \* state.winner ("none" = undefined)
  gameLoop,         \* "none" = null, "scheduled" = a pending frame, "stale" = a handle whose frame ran
  now,              \* Date.now(), ms
  lastTime,         \* start(): lastTime
  productionTimer,  \* start(): productionTimer
  aiTimer,          \* this.aiTimer
  strategies,       \* aiStrategyManager.strategies: sequence of [playerId, type]
  nextId,           \* ids handed out by generateId so far
  events,           \* what the last call emitted, in order
  lastCall,         \* the name of the last public call, or "tick" for a frame
  ret,              \* what the last sendUnits returned
  ticks, sends, controls,  \* counters that bound the exploration
  probe,            \* a call of calculateBattleDuration on its own: arguments and result
  twin,             \* this.state of a second engine run side by side with this one
  snapshot          \* the object a call of getState() returned: what it held, what it shows now

vars == <<cells, units, paths, battles, gamePhase, winner, gameLoop, now, lastTime,
          productionTimer, aiTimer, strategies, nextId, events, lastCall, ret,
          ticks, sends, controls, probe, twin, snapshot>>

(***************************************************************************)
(* Helpers over the engine state record s =                                *)
(*   [cells, units, paths, battles, gamePhase, winner, nextId, events]     *)
(***************************************************************************)
(* Array.prototype.findIndex; 0 when nothing matches *)
FindIndex(seq, Test(_)) ==
  IF \E i \in 1..Len(seq) : Test(seq[i])
  THEN CHOOSE i \in 1..Len(seq) : Test(seq[i]) /\ \A j \in 1..(i - 1) : ~Test(seq[j])
  ELSE 0

cellIndex(cs, id) == FindIndex(cs, LAMBDA c : c.id = id)
battleIndex(bs, cellId) == FindIndex(bs, LAMBDA b : b.cellId = cellId)

emit(s, e) == [s EXCEPT !.events = Append(@, e)]

distance2(p, q) == (q[1] - p[1]) * (q[1] - p[1]) + (q[2] - p[2]) * (q[2] - p[2])

(***************************************************************************)
(* GameEngine.sendUnits                                                    *)
(***************************************************************************)
(* a variant that credits every dispatch to the human player *)
newUnitOfPlayer(s, sourceCell, targetCellId, unitCount) ==
  [id |-> s.nextId + 1,
   owner |-> "player",
   position |-> <<R(sourceCell.position[1]), R(sourceCell.position[2])>>,
   targetCellId |-> targetCellId,
   unitCount |-> unitCount,
   progress |-> Zero,
   travelSpeed |-> RDiv(One, RMul(targetTravelTime, unitSpeed)),
   battleState |-> "none",
   initialUnitCount |-> Zero,
   joinProgress |-> Zero]

newUnit(s, sourceCell, targetCellId, unitCount) ==
  [id |-> s.nextId + 1,
   owner |-> sourceCell.owner,
   position |-> <<R(sourceCell.position[1]), R(sourceCell.position[2])>>,
   targetCellId |-> targetCellId,
   unitCount |-> unitCount,
   progress |-> Zero,
   travelSpeed |-> RDiv(One, RMul(targetTravelTime, unitSpeed)),
   battleState |-> "none",
   initialUnitCount |-> Zero,
   joinProgress |-> Zero]

pathIndex(ps, sourceCellId, targetCellId) ==
  FindIndex(ps, LAMBDA p : p.sourceCellId = sourceCellId /\ p.targetCellId = targetCellId)

(* a variant that looks the cells up but does not compare units with the count *)
sendUnitsUnchecked(s, sourceCellId, targetCellId, unitCount, curve) ==
  LET si == cellIndex(s.cells, sourceCellId)
      ti == cellIndex(s.cells, targetCellId)
  IN  IF si = 0 \/ ti = 0
      THEN [s |-> s, ret |-> FALSE]
      ELSE
        LET unit == newUnit(s, s.cells[si], targetCellId, unitCount)
            s1 == [s EXCEPT
                     !.cells[si].units = RSub(@, unitCount),
                     !.units = Append(@, unit),
                     !.nextId = @ + 1]
        IN  [s |-> emit(s1, [type |-> "units_sent", unit |-> unit.id, path |-> 0]),
             ret |-> TRUE]

(* curve is the outcome of Math.random() > 0.5 for a path that has to be created *)
sendUnits(s, sourceCellId, targetCellId, unitCount, curve) ==
  LET si == cellIndex(s.cells, sourceCellId)
      ti == cellIndex(s.cells, targetCellId)
  IN  IF si = 0 \/ ti = 0 \/ RLt(s.cells[si].units, unitCount)
      THEN [s |-> s, ret |-> FALSE]
      ELSE
        LET sourceCell == s.cells[si]
            unit == newUnit(s, sourceCell, targetCellId, unitCount)
            pi == pathIndex(s.paths, sourceCellId, targetCellId)
            path == [id |-> s.nextId + 2,
                     sourceCellId |-> sourceCellId,
                     targetCellId |-> targetCellId,
                     owner |-> sourceCell.owner,
                     active |-> TRUE,
                     type |-> curve]
            paths1 == IF pi = 0 THEN Append(s.paths, path)
                      ELSE [s.paths EXCEPT ![pi].active = TRUE]
            usedPath == IF pi = 0 THEN path ELSE paths1[pi]
            s1 == [s EXCEPT
                     !.cells[si].units = RSub(@, unitCount),
                     !.paths = paths1,
                     !.units = Append(@, unit),
                     !.nextId = IF pi = 0 THEN @ + 2 ELSE @ + 1]
        IN  [s |-> emit(s1, [type |-> "units_sent", unit |-> unit.id, path |-> usedPath.id]),
             ret |-> TRUE]

(***************************************************************************)
(* GameEngine.calculateUnitPosition                                        *)
(***************************************************************************)
calculateUnitPosition(source, target, progress, pathType) ==
  LET sx == R(source[1])
      sy == R(source[2])
      tx == R(target[1])
      ty == R(target[2])
      t == progress
      mt == RSub(One, t)
  IN  IF pathType = "straight"
      THEN << RAdd(sx, RMul(RSub(tx, sx), t)), RAdd(sy, RMul(RSub(ty, sy), t)) >>
      ELSE
        LET midX == RDiv(RAdd(sx, tx), R(2))
            midY == RDiv(RAdd(sy, ty), R(2))
            dx == RSub(tx, sx)
            dy == RSub(ty, sy)
            perpX == RMul(RSub(Zero, dy), <<3, 10>>)
            perpY == RMul(dx, <<3, 10>>)
            ctrlX == RAdd(midX, perpX)
            ctrlY == RAdd(midY, perpY)
            bez(a, c, b) == RAdd(RAdd(RMul(RMul(mt, mt), a), RMul(RMul(R(2), RMul(mt, t)), c)),
                                 RMul(RMul(t, t), b))
        IN  << bez(sx, ctrlX, tx), bez(sy, ctrlY, ty) >>

(***************************************************************************)
(* GameEngine.calculateBattleDuration, in seconds.  attackerUnits /        *)
(* defenderUnits follow IEEE division: x/0 is +-Infinity, 0/0 is NaN, and  *)
(* Math.max and >= with a NaN give NaN and false.                          *)
(***************************************************************************)
JsDiv(x, y) ==
  IF y # Zero THEN [kind |-> "num", val |-> RDiv(x, y)]
  ELSE IF x = Zero THEN [kind |-> "nan", val |-> Zero]
  ELSE IF RLt(Zero, x) THEN [kind |-> "inf", val |-> Zero]
  ELSE [kind |-> "-inf", val |-> Zero]

JsMax(a, b) ==
  IF a.kind = "nan" \/ b.kind = "nan" THEN [kind |-> "nan", val |-> Zero]
  ELSE IF a.kind = "inf" \/ b.kind = "inf" THEN [kind |-> "inf", val |-> Zero]
  ELSE IF a.kind = "-inf" THEN b
  ELSE IF b.kind = "-inf" THEN a
  ELSE [kind |-> "num", val |-> RMax(a.val, b.val)]

(* a variant that looks at attackers / defenders only *)
forceRatioOneSided(attackerUnits, defenderUnits) == JsDiv(attackerUnits, defenderUnits)

forceRatio(attackerUnits, defenderUnits) ==
  JsMax(JsDiv(attackerUnits, defenderUnits), JsDiv(defenderUnits, attackerUnits))

calculateBattleDuration(attackerUnits, defenderUnits) ==
  LET ratio == forceRatio(attackerUnits, defenderUnits)
  IN  IF ratio.kind = "inf" \/ (ratio.kind = "num" /\ RLe(R(2), ratio.val))
      THEN [kind |-> "num", val |-> R(minDuration)]
      ELSE IF ratio.kind = "nan" THEN ratio
      ELSE [kind |-> "num",
            val |-> RAdd(R(minDuration),
                         RMul(R(maxDuration - minDuration), RSub(R(2), ratio.val)))]

(***************************************************************************)
(* GameEngine.startOrJoinBattle, reinforceDefenders, processUnitArrival    *)
(* A battle whose duration is NaN has a NaN progress and, once damage has  *)
(* been processed, NaN defenderUnits: isNaN marks it.                      *)
(***************************************************************************)
(* a variant that records every attacker as present from the battle's start *)
joinedUnitAtStart(unit, joinProgress) ==
  [unit EXCEPT !.battleState = "fighting",
               !.initialUnitCount = unit.unitCount,
               !.joinProgress = Zero]

joinedUnit(unit, joinProgress) ==
  [unit EXCEPT !.battleState = "fighting",
               !.initialUnitCount = unit.unitCount,
               !.joinProgress = joinProgress]

newBattle(s, unit, targetCell, time) ==
  LET battleDuration == calculateBattleDuration(unit.unitCount, targetCell.units)
  IN  [id |-> s.nextId + 1,
       cellId |-> targetCell.id,
       attackers |-> << joinedUnit(unit, Zero) >>,
       defenderUnits |-> targetCell.units,
       defenderOwner |-> targetCell.owner,
       startTime |-> time,
       duration |-> [battleDuration EXCEPT !.val = RMul(@, R(1000))],
       progress |-> Zero,
       isNaN |-> FALSE,
       initialDefenderUnits |-> targetCell.units,
       initialAttackerUnits |-> unit.unitCount,
       \* observation, not a field of the code: units that reinforced the defenders
       reinforced |-> Zero]

(* a variant that never looks for a battle already at the cell *)
startBattle(s, unit, ti, time) ==
  LET targetCell == s.cells[ti]
      battle == newBattle(s, unit, targetCell, time)
  IN  emit([s EXCEPT !.battles = Append(@, battle), !.nextId = @ + 1],
           [type |-> "battle_started", battle |-> battle.id, cellId |-> targetCell.id])

(* a variant whose join recomputes the duration for the enlarged attack and *)
(* adds the newcomer to the recorded attacker total                        *)
startOrJoinBattleRetimed(s, unit, ti, time) ==
  LET targetCell == s.cells[ti]
      bi == battleIndex(s.battles, targetCell.id)
  IN  IF bi # 0
      THEN
        LET battle == s.battles[bi]
            joined == joinedUnit(unit, IF battle.isNaN THEN Zero ELSE battle.progress)
            total == RAdd(battle.initialAttackerUnits, unit.unitCount)
            retimed == calculateBattleDuration(total, battle.initialDefenderUnits)
        IN  emit([s EXCEPT !.battles[bi].attackers = Append(@, joined),
                           !.battles[bi].initialAttackerUnits = total,
                           !.battles[bi].duration = [retimed EXCEPT !.val = RMul(@, R(1000))]],
                 [type |-> "battle_joined", battle |-> battle.id, unit |-> unit.id])
      ELSE
        LET battle == newBattle(s, unit, targetCell, time)
        IN  emit([s EXCEPT !.battles = Append(@, battle), !.nextId = @ + 1],
                 [type |-> "battle_started", battle |-> battle.id, cellId |-> targetCell.id])

startOrJoinBattle(s, unit, ti, time) ==
  LET targetCell == s.cells[ti]
      bi == battleIndex(s.battles, targetCell.id)
  IN  IF bi # 0
      THEN
        LET battle == s.battles[bi]
            \* NaN || 0 is 0
            joined == joinedUnit(unit, IF battle.isNaN THEN Zero ELSE battle.progress)
        IN  emit([s EXCEPT !.battles[bi].attackers = Append(@, joined)],
                 [type |-> "battle_joined", battle |-> battle.id, unit |-> unit.id])
      ELSE
        LET battle == newBattle(s, unit, targetCell, time)
        IN  emit([s EXCEPT !.battles = Append(@, battle), !.nextId = @ + 1],
                 [type |-> "battle_started", battle |-> battle.id, cellId |-> targetCell.id])

(* a variant that credits the cell only and leaves the battle's defenders alone *)
reinforceCellOnly(s, unit, ti, bi) ==
  LET reinforcementBonus == unit.unitCount
      s1 == [s EXCEPT !.cells[ti].units = RAdd(@, reinforcementBonus)]
      s2 == emit(s1, [type |-> "defenders_reinforced", unit |-> unit.id,
                      cellId |-> s.cells[ti].id, battle |-> s.battles[bi].id,
                      reinforcementBonus |-> reinforcementBonus,
                      defenderUnits |-> s1.battles[bi].defenderUnits,
                      cellUnits |-> s1.cells[ti].units,
                      defendersBefore |-> s.battles[bi].defenderUnits,
                      cellBefore |-> s.cells[ti].units])
  IN  [s2 EXCEPT !.units = SelectSeq(@, LAMBDA u : u.id # unit.id)]

reinforceDefenders(s, unit, ti, bi) ==
  LET reinforcementBonus == unit.unitCount
      s1 == [s EXCEPT
               !.battles[bi].defenderUnits = RAdd(@, reinforcementBonus),
               !.battles[bi].reinforced = RAdd(@, reinforcementBonus),
               !.cells[ti].units = RAdd(@, reinforcementBonus)]
      \* the payload refers to the cell and the battle: a listener reads their
      \* units as they are when the event is emitted; the values before the two
      \* additions are an observation, not a field of the code
      s2 == emit(s1, [type |-> "defenders_reinforced", unit |-> unit.id,
                      cellId |-> s.cells[ti].id, battle |-> s.battles[bi].id,
                      reinforcementBonus |-> reinforcementBonus,
                      defenderUnits |-> s1.battles[bi].defenderUnits,
                      cellUnits |-> s1.cells[ti].units,
                      defendersBefore |-> s.battles[bi].defenderUnits,
                      cellBefore |-> s.cells[ti].units])
  IN  [s2 EXCEPT !.units = SelectSeq(@, LAMBDA u : u.id # unit.id)]

(* a variant whose peaceful arrival sets the cell's units instead of adding to them *)
processUnitArrivalOverwriting(s, unit, time) ==
  LET ti == cellIndex(s.cells, unit.targetCellId)
  IN  IF ti = 0 THEN s
      ELSE
        LET targetCell == s.cells[ti]
            bi == battleIndex(s.battles, targetCell.id)
        IN  IF targetCell.owner = unit.owner /\ bi = 0
            THEN emit([s EXCEPT !.cells[ti].units = unit.unitCount],
                      [type |-> "units_arrived", unit |-> unit.id, cellId |-> targetCell.id])
            ELSE IF targetCell.owner = unit.owner
            THEN reinforceDefenders(s, unit, ti, bi)
            ELSE startOrJoinBattle(s, unit, ti, time)

processUnitArrival(s, unit, time) ==
  LET ti == cellIndex(s.cells, unit.targetCellId)
  IN  IF ti = 0 THEN s
      ELSE
        LET targetCell == s.cells[ti]
            bi == battleIndex(s.battles, targetCell.id)
        IN  IF targetCell.owner = unit.owner /\ bi = 0
            THEN emit([s EXCEPT !.cells[ti].units = RAdd(@, unit.unitCount)],
                      [type |-> "units_arrived", unit |-> unit.id, cellId |-> targetCell.id])
            ELSE IF targetCell.owner = unit.owner
            THEN reinforceDefenders(s, unit, ti, bi)
            ELSE startOrJoinBattle(s, unit, ti, time)

(***************************************************************************)
(* GameEngine.updateUnits                                                  *)
(***************************************************************************)
(* a variant in which a unit on a curved path covers half the progress per frame *)
movedUnitAlongCurve(s, unit, deltaTime) ==
  LET ti == cellIndex(s.cells, unit.targetCellId)
  IN  IF ti = 0 THEN unit
      ELSE
        LET targetCell == s.cells[ti]
            si == FindIndex(s.cells, LAMBDA c :
                    \E k \in 1..Len(s.paths) :
                       /\ s.paths[k].targetCellId = unit.targetCellId
                       /\ s.paths[k].sourceCellId = c.id
                       /\ s.paths[k].owner = unit.owner)
            pi == IF si = 0 THEN 0 ELSE pathIndex(s.paths, s.cells[si].id, targetCell.id)
            pathType == IF pi = 0 THEN "straight" ELSE s.paths[pi].type
            step == RMul(RMul(unit.travelSpeed, deltaTime),
                         IF pathType = "curved" THEN <<1, 2>> ELSE One)
            progress == RMin(One, RAdd(unit.progress, step))
        IN  IF RLt(<<1, 1000>>, RSub(progress, unit.progress)) /\ si # 0
            THEN [unit EXCEPT
                    !.progress = progress,
                    !.position = calculateUnitPosition(
                                   s.cells[si].position, targetCell.position, progress,
                                   pathType)]
            ELSE [unit EXCEPT !.progress = progress]

(* the unit after the movement loop's body *)
movedUnit(s, unit, deltaTime) ==
  LET ti == cellIndex(s.cells, unit.targetCellId)
  IN  IF ti = 0 THEN unit
      ELSE
        LET targetCell == s.cells[ti]
            progress == RMin(One, RAdd(unit.progress, RMul(unit.travelSpeed, deltaTime)))
            si == FindIndex(s.cells, LAMBDA c :
                    \E k \in 1..Len(s.paths) :
                       /\ s.paths[k].targetCellId = unit.targetCellId
                       /\ s.paths[k].sourceCellId = c.id
                       /\ s.paths[k].owner = unit.owner)
        IN  IF RLt(<<1, 1000>>, RSub(progress, unit.progress)) /\ si # 0
            THEN
              LET sourceCell == s.cells[si]
                  pi == pathIndex(s.paths, sourceCell.id, targetCell.id)
              IN  [unit EXCEPT
                     !.progress = progress,
                     !.position = calculateUnitPosition(
                                    sourceCell.position, targetCell.position, progress,
                                    IF pi = 0 THEN "straight" ELSE s.paths[pi].type)]
            ELSE [unit EXCEPT !.progress = progress]

RECURSIVE processArrivals(_, _, _)
processArrivals(s, arrivedUnits, time) ==
  IF arrivedUnits = <<>> THEN s
  ELSE processArrivals(processUnitArrival(s, Head(arrivedUnits), time), Tail(arrivedUnits), time)

(* a variant that leaves the arrived units in the transit list *)
updateUnitsKeepingArrived(s, deltaTime, time) ==
  LET moved == [i \in 1..Len(s.units) |-> movedUnit(s, s.units[i], deltaTime)]
      hasMovement == \E i \in 1..Len(moved) :
                        RLt(<<1, 1000>>, RSub(moved[i].progress, s.units[i].progress))
      arrivedUnits == SelectSeq(moved, LAMBDA u :
                         cellIndex(s.cells, u.targetCellId) # 0 /\ RLe(One, u.progress))
      s1 == processArrivals([s EXCEPT !.units = moved], arrivedUnits, time)
  IN  IF hasMovement \/ arrivedUnits # <<>>
      THEN emit(s1, [type |-> "state_changed"])
      ELSE s1

updateUnits(s, deltaTime, time) ==
  LET moved == [i \in 1..Len(s.units) |-> movedUnit(s, s.units[i], deltaTime)]
      hasMovement == \E i \in 1..Len(moved) :
                        RLt(<<1, 1000>>, RSub(moved[i].progress, s.units[i].progress))
      arrivedUnits == SelectSeq(moved, LAMBDA u :
                         cellIndex(s.cells, u.targetCellId) # 0 /\ RLe(One, u.progress))
      s1 == processArrivals([s EXCEPT !.units = moved], arrivedUnits, time)
      s2 == [s1 EXCEPT !.units = SelectSeq(@, LAMBDA u : RLt(u.progress, One))]
  IN  IF hasMovement \/ arrivedUnits # <<>>
      THEN emit(s2, [type |-> "state_changed"])
      ELSE s2

(***************************************************************************)
(* GameEngine.processBattleDamage                                          *)
(***************************************************************************)
(* effectiveParticipation of an attacker when the battle is at progress *)
participation(attacker, progress) ==
  LET timeInBattle == RMax(Zero, RSub(progress, attacker.joinProgress))
  IN  RMin(One, RDiv(timeInBattle, rampUp))

initialUnitsOf(attacker) == OrElse(attacker.initialUnitCount, attacker.unitCount)

(* the sum of initialUnits * effectiveParticipation over a list of attackers *)
effectiveForce(attackers, progress) ==
  RSum([i \in 1..Len(attackers) |->
          RMul(initialUnitsOf(attackers[i]), participation(attackers[i], progress))])

initialDefendersOf(battle, targetCell) == OrElse(battle.initialDefenderUnits, targetCell.units)

(* a variant that ignores the cell type's bonus *)
defenseBonusIgnored(targetCell) == One

defenseBonusOf(targetCell) == OrElse(CellTypes[targetCell.type].defenseBonus, One)

(* a variant that adds the losses instead of subtracting them *)
damagedAttackerGrowing(attacker, progress, totalCurrentAttackers, finalAttackerSurvivors) ==
  LET joinProgress == attacker.joinProgress
      initialUnits == initialUnitsOf(attacker)
      timeInBattle == RMax(Zero, RSub(progress, joinProgress))
  IN  IF RLe(timeInBattle, Zero)
      THEN [attacker EXCEPT !.unitCount = initialUnits]
      ELSE
        LET battleDamageProgress ==
              RMin(One, RDiv(timeInBattle, RMax(rampUp, RSub(One, joinProgress))))
        IN  IF RLt(Zero, totalCurrentAttackers)
            THEN
              LET unitSurvivalRate == RDiv(finalAttackerSurvivors, totalCurrentAttackers)
                  finalUnits == RMul(initialUnits, unitSurvivalRate)
              IN  [attacker EXCEPT !.unitCount =
                     RMax(Zero, RAdd(initialUnits,
                                     RMul(RSub(initialUnits, finalUnits), battleDamageProgress)))]
            ELSE attacker

damagedAttacker(attacker, progress, totalCurrentAttackers, finalAttackerSurvivors) ==
  LET joinProgress == attacker.joinProgress
      initialUnits == initialUnitsOf(attacker)
      timeInBattle == RMax(Zero, RSub(progress, joinProgress))
  IN  IF RLe(timeInBattle, Zero)
      THEN [attacker EXCEPT !.unitCount = initialUnits]
      ELSE
        LET battleDamageProgress ==
              RMin(One, RDiv(timeInBattle, RMax(rampUp, RSub(One, joinProgress))))
        IN  IF RLt(Zero, totalCurrentAttackers)
            THEN
              LET unitSurvivalRate == RDiv(finalAttackerSurvivors, totalCurrentAttackers)
                  finalUnits == RMul(initialUnits, unitSurvivalRate)
              IN  [attacker EXCEPT !.unitCount =
                     RMax(Zero, RSub(initialUnits,
                                     RMul(RSub(initialUnits, finalUnits), battleDamageProgress)))]
            ELSE attacker

processBattleDamage(s, bi) ==
  LET battle == s.battles[bi]
      ti == cellIndex(s.cells, battle.cellId)
  IN  IF ti = 0 THEN s
      ELSE IF battle.isNaN THEN s   \* every quantity is NaN: no attacker is assigned
      ELSE
        LET targetCell == s.cells[ti]
            progress == battle.progress
            totalCurrentAttackers == effectiveForce(battle.attackers, progress)
            initialDefenders == initialDefendersOf(battle, targetCell)
            defenseBonus == defenseBonusOf(targetCell)
            effectiveDefenders == RMul(initialDefenders, defenseBonus)
            attackersWin == RLt(effectiveDefenders, totalCurrentAttackers)
            finalAttackerSurvivors ==
              RMax(Zero, IF attackersWin THEN RSub(totalCurrentAttackers, effectiveDefenders)
                         ELSE Zero)
            finalDefenderSurvivors ==
              RMax(Zero, IF attackersWin THEN Zero
                         ELSE RSub(initialDefenders, RDiv(totalCurrentAttackers, defenseBonus)))
            currentDefenders ==
              RSub(initialDefenders,
                   RMul(RSub(initialDefenders, finalDefenderSurvivors), progress))
        IN  [s EXCEPT
               !.battles[bi].defenderUnits = RMax(Zero, currentDefenders),
               !.battles[bi].attackers =
                  [i \in 1..Len(battle.attackers) |->
                     damagedAttacker(battle.attackers[i], progress,
                                     totalCurrentAttackers, finalAttackerSurvivors)]]

(***************************************************************************)
(* GameEngine.resolveBattle.  The battle_ended event carries the battle    *)
(* object as the code's does.                                              *)
(***************************************************************************)
(* the keys of attackersByOwner, in insertion order *)
RECURSIVE ownersInOrder(_)
ownersInOrder(attackers) ==
  IF attackers = <<>> THEN <<>>
  ELSE LET rest == ownersInOrder(SelectSeq(Tail(attackers),
                                           LAMBDA a : a.owner # Head(attackers).owner))
       IN  <<Head(attackers).owner>> \o rest

(* factionForces.get(owner) *)
factionForce(attackers, owner) ==
  LET mine == SelectSeq(attackers, LAMBDA a : a.owner = owner)
  IN  [effective |-> effectiveForce(mine, One),
       surviving |-> RSum([i \in 1..Len(mine) |-> mine[i].unitCount])]

(* the loop that picks the faction with the most effective force *)
RECURSIVE pickWinner(_, _, _, _)
pickWinner(attackers, owners, winningOwner, winningForce) ==
  IF owners = <<>> THEN winningOwner
  ELSE LET forces == factionForce(attackers, Head(owners))
       IN  IF RLt(winningForce, forces.effective)
           THEN pickWinner(attackers, Tail(owners), Head(owners), forces.effective)
           ELSE pickWinner(attackers, Tail(owners), winningOwner, winningForce)

totalEffectiveAttackersOf(battle) ==
  LET owners == ownersInOrder(battle.attackers)
  IN  RSum([i \in 1..Len(owners) |-> factionForce(battle.attackers, owners[i]).effective])

attackersCapture(battle, targetCell) ==
  RLt(RMul(initialDefendersOf(battle, targetCell), defenseBonusOf(targetCell)),
      totalEffectiveAttackersOf(battle))

resolveBattle(s, bi) ==
  LET battle == s.battles[bi]
      ti == cellIndex(s.cells, battle.cellId)
  IN  IF ti = 0 THEN s
      ELSE
        LET targetCell == s.cells[ti]
            owners == ownersInOrder(battle.attackers)
            winningOwner == pickWinner(battle.attackers, owners, "", Zero)
            winnerSurvivors ==
              IF winningOwner = "" THEN Zero
              ELSE factionForce(battle.attackers, winningOwner).surviving
            s1 == IF attackersCapture(battle, targetCell)
                  THEN emit([s EXCEPT
                               !.cells[ti].owner = winningOwner,
                               !.cells[ti].units = R(IF RFloor(winnerSurvivors) < 1 THEN 1
                                                     ELSE RFloor(winnerSurvivors))],
                            [type |-> "cell_captured", cellId |-> targetCell.id,
                             newOwner |-> winningOwner])
                  ELSE [s EXCEPT
                          !.cells[ti].units = R(IF RFloor(battle.defenderUnits) < 1 THEN 1
                                                ELSE RFloor(battle.defenderUnits))]
            s2 == [s1 EXCEPT !.units = SelectSeq(@, LAMBDA u :
                                 \A i \in 1..Len(battle.attackers) : battle.attackers[i].id # u.id)]
        IN  emit(s2, [type |-> "battle_ended", battle |-> battle,
                      winner |-> s2.cells[ti].owner,
                      \* observation of the call, not payload: the cells before and
                      \* after it and the transit list after it
                      before |-> s.cells, after |-> s2.cells, unitsAfter |-> s2.units])

(***************************************************************************)
(* GameEngine.updateBattles                                                *)
(***************************************************************************)
battleProgress(battle, time) ==
  RMin(One, RDiv(R(time - battle.startTime), battle.duration.val))

(* the loop body for the battle at index bi: s after it, and whether it completed *)
battleStep(s, bi, time) ==
  LET battle == s.battles[bi]
      nan == battle.duration.kind = "nan"
      s1 == [s EXCEPT !.battles[bi].progress = IF nan THEN @ ELSE battleProgress(battle, time),
                      !.battles[bi].isNaN = nan]
      s2 == emit(processBattleDamage(s1, bi),
                 [type |-> "battle_progress", battle |-> battle.id])
      complete == ~nan /\ RLe(One, s2.battles[bi].progress)
  IN  [s |-> IF complete THEN resolveBattle(s2, bi) ELSE s2, complete |-> complete]

RECURSIVE battleLoop(_, _, _, _)
battleLoop(s, bi, time, completedBattles) ==
  IF bi > Len(s.battles)
  THEN [s EXCEPT !.battles = SelectSeq(@, LAMBDA b : b.id \notin completedBattles)]
  ELSE LET r == battleStep(s, bi, time)
       IN  battleLoop(r.s, bi + 1, time,
                      IF r.complete THEN completedBattles \cup {s.battles[bi].id}
                      ELSE completedBattles)

updateBattles(s, time) == battleLoop(s, 1, time, {})

(***************************************************************************)
(* GameEngine.updateProduction and checkWinCondition                       *)
(***************************************************************************)
producedCell(cell) ==
  IF cell.owner # "neutral"
  THEN LET production == OrElse(CellTypes[cell.type].productionMultiplier, One)
           maxUnits == CellTypes[cell.type].maxUnits
           grown == RAdd(cell.units, production)
       IN  [cell EXCEPT !.units = IF maxUnits # Zero THEN RMin(grown, maxUnits) ELSE grown]
  ELSE cell

updateProduction(s) ==
  emit([s EXCEPT !.cells = [i \in 1..Len(s.cells) |-> producedCell(s.cells[i])]],
       [type |-> "production_cycle"])

(* a variant that looks at the enemy's cells before the player's *)
checkWinConditionEnemyFirst(s) ==
  LET playerCells == SelectSeq(s.cells, LAMBDA c : c.owner = "player")
      enemyCells == SelectSeq(s.cells, LAMBDA c : c.owner = "enemy")
  IN  IF Len(enemyCells) = 0
      THEN emit([s EXCEPT !.gamePhase = "ended", !.winner = "player"],
                [type |-> "game_ended", winner |-> "player"])
      ELSE IF Len(playerCells) = 0
      THEN emit([s EXCEPT !.gamePhase = "ended", !.winner = "enemy"],
                [type |-> "game_ended", winner |-> "enemy"])
      ELSE s

checkWinCondition(s) ==
  LET playerCells == SelectSeq(s.cells, LAMBDA c : c.owner = "player")
      enemyCells == SelectSeq(s.cells, LAMBDA c : c.owner = "enemy")
  IN  IF Len(playerCells) = 0
      THEN emit([s EXCEPT !.gamePhase = "ended", !.winner = "enemy"],
                [type |-> "game_ended", winner |-> "enemy"])
      ELSE IF Len(enemyCells) = 0
      THEN emit([s EXCEPT !.gamePhase = "ended", !.winner = "player"],
                [type |-> "game_ended", winner |-> "player"])
      ELSE s

(***************************************************************************)
(* SimpleAIStrategy (src/src/engine/AIStrategy.ts)                         *)
(***************************************************************************)
(* BaseAIStrategy.getClosestCell: the first cell at the least distance *)
getClosestCell(sourceCell, targetCells) ==
  LET d(i) == distance2(sourceCell.position, targetCells[i].position)
      best == CHOOSE i \in 1..Len(targetCells) :
                /\ \A j \in 1..Len(targetCells) : d(i) <= d(j)
                /\ \A j \in 1..(i - 1) : d(i) < d(j)
  IN  targetCells[best]

(* BaseAIStrategy.findClosestNonAllyCell: <<>> for null, else << cell >> *)
findClosestNonAllyCell(playerId, sourceCell, cs) ==
  LET neighborCells == SelectSeq(cs, LAMBDA c :
                          /\ c.owner # playerId
                          /\ c.id # sourceCell.id
                          /\ distance2(sourceCell.position, c.position)
                               <= neighborRange * neighborRange)
  IN  IF neighborCells = <<>> THEN <<>> ELSE << getClosestCell(sourceCell, neighborCells) >>

(* a variant of evaluateCell that attacks with exactly three times the units *)
simpleEvaluateCellAtThrice(playerId, sourceCell, cs) ==
  LET found == findClosestNonAllyCell(playerId, sourceCell, cs)
  IN  IF found = <<>> THEN <<>>
      ELSE LET targetCell == found[1]
               requiredUnits == RMul(targetCell.units, R(3))
               half == RFloor(RDiv(RSub(sourceCell.units, One), R(2)))
           IN  IF RLe(requiredUnits, sourceCell.units)
               THEN << [sourceCellId |-> sourceCell.id,
                        targetCellId |-> targetCell.id,
                        unitCount |-> R(IF half < 1 THEN 1 ELSE half),
                        priority |-> 5,
                        type |-> "attack"] >>
               ELSE <<>>

(* SimpleAIStrategy.evaluateCell: <<>> for null, else << decision >> *)
simpleEvaluateCell(playerId, sourceCell, cs) ==
  LET found == findClosestNonAllyCell(playerId, sourceCell, cs)
  IN  IF found = <<>> THEN <<>>
      ELSE LET targetCell == found[1]
               requiredUnits == RMul(targetCell.units, R(3))
               half == RFloor(RDiv(RSub(sourceCell.units, One), R(2)))
           IN  IF RLt(requiredUnits, sourceCell.units)
               THEN << [sourceCellId |-> sourceCell.id,
                        targetCellId |-> targetCell.id,
                        unitCount |-> R(IF half < 1 THEN 1 ELSE half),
                        priority |-> 5,
                        type |-> "attack"] >>
               ELSE <<>>

(* SimpleAIStrategy.applyCoordinationRules *)
simpleApplyCoordinationRules(attackers, targetCellId, cs) ==
  LET ti == cellIndex(cs, targetCellId)
      totalUnits == RSum([i \in 1..Len(attackers) |-> attackers[i].unitCount])
      strongest == CHOOSE i \in 1..Len(attackers) :
                     /\ \A j \in 1..Len(attackers) :
                          RLe(attackers[j].unitCount, attackers[i].unitCount)
                     /\ \A j \in 1..(i - 1) :
                          RLt(attackers[j].unitCount, attackers[i].unitCount)
  IN  IF ti = 0 THEN attackers
      ELSE IF RLe(RMul(cs[ti].units, R(2)), totalUnits) THEN attackers
      ELSE IF Len(attackers) = 1 THEN <<>>
      ELSE << attackers[strongest] >>

(* the keys of plannedAttacks, in insertion order *)
RECURSIVE targetsInOrder(_)
targetsInOrder(decisions) ==
  IF decisions = <<>> THEN <<>>
  ELSE <<Head(decisions).targetCellId>> \o
       targetsInOrder(SelectSeq(Tail(decisions),
                                LAMBDA d : d.targetCellId # Head(decisions).targetCellId))

RECURSIVE Flatten(_)
Flatten(seqs) == IF seqs = <<>> THEN <<>> ELSE Head(seqs) \o Flatten(Tail(seqs))

(* the entries of plannedAttacks, in insertion order *)
plannedAttacks(decisions) ==
  LET targets == targetsInOrder(decisions)
  IN  [i \in 1..Len(targets) |->
         [targetCellId |-> targets[i],
          attackers |-> SelectSeq(decisions, LAMBDA d : d.targetCellId = targets[i])]]

(* the targets coordinateAttacks hands to applyCoordinationRules *)
rulesAppliedTo(decisions) ==
  LET planned == plannedAttacks(decisions)
      handed == SelectSeq(planned, LAMBDA attack : Len(attack.attackers) # 1)
  IN  [i \in 1..Len(handed) |-> handed[i].targetCellId]

(* simpleCoordinateAttacks handing every target to the rules *)
simpleCoordinateEveryTarget(decisions, cs) ==
  LET planned == plannedAttacks(decisions)
  IN  Flatten([i \in 1..Len(planned) |->
                 simpleApplyCoordinationRules(planned[i].attackers,
                                              planned[i].targetCellId, cs)])

(* BaseAIStrategy.coordinateAttacks with the Simple strategy's rules
   (its coordinationLevel 0.7 is not below 0.5) *)
simpleCoordinateAttacks(decisions, cs) ==
  LET targets == targetsInOrder(decisions)
      group(t) == SelectSeq(decisions, LAMBDA d : d.targetCellId = t)
  IN  Flatten([i \in 1..Len(targets) |->
                 IF Len(group(targets[i])) = 1 THEN group(targets[i])
                 ELSE simpleApplyCoordinationRules(group(targets[i]), targets[i], cs)])

(* SimpleAIStrategy.makeDecisions *)
simpleMakeDecisions(playerId, cs) ==
  LET aiCells == SelectSeq(cs, LAMBDA c : c.owner = playerId)
      potentialDecisions ==
        Flatten([i \in 1..Len(aiCells) |-> simpleEvaluateCell(playerId, aiCells[i], cs)])
  IN  simpleCoordinateAttacks(potentialDecisions, cs)

(***************************************************************************)
(* AggressiveAIStrategy (src/src/engine/strategies/AggressiveAIStrategy.ts) *)
(***************************************************************************)
(* findWeakestTarget: enemies before neutrals, nearby ones only, the first *)
(* of the fewest units (Array.prototype.sort is stable); <<>> for null     *)
aggressiveFindWeakestTarget(playerId, sourceCell, cs) ==
  LET enemyCells == SelectSeq(cs, LAMBDA c : c.owner # playerId /\ c.owner # "neutral")
      neutralCells == SelectSeq(cs, LAMBDA c : c.owner = "neutral")
      allTargets == SelectSeq(enemyCells \o neutralCells, LAMBDA c :
                      distance2(sourceCell.position, c.position)
                        < aggressiveRange * aggressiveRange)
      weakest == CHOOSE i \in 1..Len(allTargets) :
                   /\ \A j \in 1..Len(allTargets) : RLe(allTargets[i].units, allTargets[j].units)
                   /\ \A j \in 1..(i - 1) : RLt(allTargets[i].units, allTargets[j].units)
  IN  IF allTargets = <<>> THEN <<>> ELSE << allTargets[weakest] >>

(* evaluateAggressiveAttack: <<>> for null, else << decision >> *)
evaluateAggressiveAttack(sourceCell, targetCell) ==
  LET requiredUnits == R(RCeil(RMul(targetCell.units, <<3, 2>>)))
  IN  IF RLt(RAdd(requiredUnits, One), sourceCell.units)
      THEN << [sourceCellId |-> sourceCell.id,
               targetCellId |-> targetCell.id,
               unitCount |-> RSub(sourceCell.units, One),
               priority |-> IF targetCell.owner = "neutral" THEN 6 ELSE 8,
               type |-> "attack"] >>
      ELSE <<>>

(* AggressiveAIStrategy.applyCoordinationRules *)
aggressiveApplyCoordinationRules(attackers, targetCellId, cs) ==
  LET ti == cellIndex(cs, targetCellId)
      totalUnits == RSum([i \in 1..Len(attackers) |-> attackers[i].unitCount])
  IN  IF ti = 0 THEN attackers
      ELSE IF RLt(cs[ti].units, totalUnits) THEN attackers
      ELSE SelectSeq(attackers, LAMBDA a : RLe(RMul(cs[ti].units, <<4, 5>>), a.unitCount))

(* BaseAIStrategy.coordinateAttacks with the Aggressive strategy's rules
   (its coordinationLevel 0.9 is not below 0.5) *)
aggressiveCoordinateAttacks(decisions, cs) ==
  LET targets == targetsInOrder(decisions)
      group(t) == SelectSeq(decisions, LAMBDA d : d.targetCellId = t)
  IN  Flatten([i \in 1..Len(targets) |->
                 IF Len(group(targets[i])) = 1 THEN group(targets[i])
                 ELSE aggressiveApplyCoordinationRules(group(targets[i]), targets[i], cs)])

(* AggressiveAIStrategy.makeDecisions *)
aggressiveMakeDecisions(playerId, cs) ==
  LET aiCells == SelectSeq(cs, LAMBDA c : c.owner = playerId)
      evaluated(aiCell) ==
        IF RLe(aiCell.units, R(2)) THEN <<>>
        ELSE LET weakestTarget == aggressiveFindWeakestTarget(playerId, aiCell, cs)
             IN  IF weakestTarget = <<>> THEN <<>>
                 ELSE evaluateAggressiveAttack(aiCell, weakestTarget[1])
      decisions == Flatten([i \in 1..Len(aiCells) |-> evaluated(aiCells[i])])
  IN  aggressiveCoordinateAttacks(decisions, cs)

(***************************************************************************)
(* AIStrategyManager: strategies is a Map from player id to strategy,      *)
(* kept here as the sequence of its entries in insertion order.            *)
(***************************************************************************)
(* strategies.has(playerId) *)
hasStrategy(strats, playerId) ==
  \E i \in 1..Len(strats) : strats[i].playerId = playerId

(* a variant of Map.prototype.set that adds an entry whatever the map holds *)
mapSetAppending(strats, playerId, strategyType) ==
  Append(strats, [playerId |-> playerId, strategyType |-> strategyType])

(* strategies.set(playerId, createStrategy(playerId, strategyType)): an    *)
(* existing key keeps its place in the order                               *)
mapSet(strats, playerId, strategyType) ==
  IF hasStrategy(strats, playerId)
  THEN [i \in 1..Len(strats) |->
          IF strats[i].playerId = playerId
          THEN [playerId |-> playerId, strategyType |-> strategyType]
          ELSE strats[i]]
  ELSE Append(strats, [playerId |-> playerId, strategyType |-> strategyType])

(* strategies.delete(playerId) *)
mapDelete(strats, playerId) == SelectSeq(strats, LAMBDA e : e.playerId # playerId)

(* strategy.makeDecisions(this.state) of a registered strategy *)
makeDecisions(strategy, cs) ==
  IF strategy.strategyType = "aggressive"
  THEN aggressiveMakeDecisions(strategy.playerId, cs)
  ELSE simpleMakeDecisions(strategy.playerId, cs)

(***************************************************************************)
(* GameEngine.updateAI.  rnd[id] is the outcome of Math.random() > 0.5 for *)
(* a path created from cell id during the pass.                            *)
(***************************************************************************)
PathTypes == {"straight", "curved"}

(* a variant that gives up the rest of the list at the first rejected decision *)
RECURSIVE applyDecisionsUntilRejected(_, _, _)
applyDecisionsUntilRejected(s, decisions, rnd) ==
  IF decisions = <<>> THEN s
  ELSE LET d == Head(decisions)
           r == sendUnits(s, d.sourceCellId, d.targetCellId, d.unitCount, rnd[d.sourceCellId])
       IN  IF r.ret THEN applyDecisionsUntilRejected(r.s, Tail(decisions), rnd) ELSE s

RECURSIVE applyDecisions(_, _, _)
applyDecisions(s, decisions, rnd) ==
  IF decisions = <<>> THEN s
  ELSE LET d == Head(decisions)
       IN  applyDecisions(sendUnits(s, d.sourceCellId, d.targetCellId, d.unitCount,
                                    rnd[d.sourceCellId]).s,
                          Tail(decisions), rnd)

RECURSIVE aiLoop(_, _, _)
aiLoop(s, aiPlayers, rnd) ==
  IF aiPlayers = <<>> THEN s
  ELSE LET decisions == makeDecisions(Head(aiPlayers), s.cells)
       IN  aiLoop(applyDecisions(s, decisions, rnd), Tail(aiPlayers), rnd)

updateAI(s, strats, rnd) == aiLoop(s, strats, rnd)

(***************************************************************************)
(* The engine as a state machine                                           *)
(***************************************************************************)
(* this.state at the start of a call, with nothing emitted yet *)
engine ==
  [cells |-> cells, units |-> units, paths |-> paths, battles |-> battles,
   gamePhase |-> gamePhase, winner |-> winner, nextId |-> nextId, events |-> <<>>]

(* this.state := s *)
store(s) ==
  /\ cells' = s.cells
  /\ units' = s.units
  /\ paths' = s.paths
  /\ battles' = s.battles
  /\ gamePhase' = s.gamePhase
  /\ winner' = s.winner
  /\ nextId' = s.nextId
  /\ events' = s.events

(* constructor and createInitialState *)
constructed ==
  /\ cells = <<>>
  /\ units = <<>>
  /\ paths = <<>>
  /\ battles = <<>>
  /\ gamePhase = "setup"
  /\ winner = NoId
  /\ gameLoop = "none"
  /\ now = 0
  /\ lastTime = 0
  /\ productionTimer = Zero
  /\ aiTimer = Zero
  /\ strategies = << [playerId |-> "enemy", strategyType |-> "simple"] >>
  /\ nextId = 0
  /\ events = <<>>
  /\ lastCall = "new"
  /\ ret = FALSE
  /\ ticks = 0
  /\ sends = 0
  /\ controls = 0
  /\ twin = NoTwin
  /\ snapshot = NoSnapshot

Init ==
  /\ constructed
  /\ probe = NoProbe

(* setCells(cells) *)
SetCells ==
  /\ controls < MaxControl
  /\ \E map \in InitialMaps :
     \E s \in {emit([engine EXCEPT !.cells = map], [type |-> "state_changed"])} : store(s)
  /\ controls' = controls + 1
  /\ lastCall' = "setCells"
  /\ UNCHANGED <<gameLoop, now, lastTime, productionTimer, aiTimer, strategies, ret,
                 ticks, sends, probe, twin, snapshot>>

(* start(): schedules the first frame unless a handle is already held *)
Start ==
  /\ controls < MaxControl
  /\ IF gameLoop # "none"
     THEN UNCHANGED <<gamePhase, lastTime, productionTimer, gameLoop>>
     ELSE /\ gamePhase' = "playing"
          /\ lastTime' = now
          /\ productionTimer' = Zero
          /\ gameLoop' = "scheduled"
  /\ events' = <<>>
  /\ controls' = controls + 1
  /\ lastCall' = "start"
  /\ UNCHANGED <<cells, units, paths, battles, winner, now, aiTimer, strategies, nextId,
                 ret, ticks, sends, probe, twin, snapshot>>

(* stop() *)
Stop ==
  /\ controls < MaxControl
  /\ gameLoop' = "none"
  /\ gamePhase' = "paused"
  /\ events' = <<>>
  /\ controls' = controls + 1
  /\ lastCall' = "stop"
  /\ UNCHANGED <<cells, units, paths, battles, winner, now, lastTime, productionTimer,
                 aiTimer, strategies, nextId, ret, ticks, sends, probe, twin, snapshot>>

(* the outcomes of Math.random() > 0.5 that a dispatch can observe: it is
   drawn only when the path between the two cells has to be created *)
curveChoices(s, sourceCellId, targetCellId) ==
  IF /\ cellIndex(s.cells, sourceCellId) # 0
     /\ cellIndex(s.cells, targetCellId) # 0
     /\ pathIndex(s.paths, sourceCellId, targetCellId) = 0
  THEN PathTypes
  ELSE {"straight"}

(* the draws an AI pass can observe, one per source cell that dispatches *)
rndChoices(think) ==
  IF think THEN [{"A", "B", "C", "D"} -> PathTypes]
  ELSE {[id \in {"A", "B", "C", "D"} |-> "straight"]}

(* a caller's sendUnits(sourceCellId, targetCellId, unitCount) *)
SendUnits(sourceCellId, targetCellId, unitCount) ==
  /\ sends < MaxSends
  /\ \E curve \in curveChoices(engine, sourceCellId, targetCellId) :
     \E r \in {sendUnits(engine, sourceCellId, targetCellId, R(unitCount), curve)} :
           /\ store(r.s)
           /\ ret' = r.ret
           /\ sends' = IF r.ret THEN sends + 1 ELSE sends
  /\ lastCall' = "sendUnits"
  /\ UNCHANGED <<gameLoop, now, lastTime, productionTimer, aiTimer, strategies,
                 ticks, controls, probe, twin, snapshot>>

(* aiMakeDecisions(): a pass of the AI outside the loop *)
AiMakeDecisions ==
  /\ sends < MaxSends
  /\ \E rnd \in rndChoices(TRUE) :
     \E s \in {updateAI(engine, strategies, rnd)} : store(s)
  /\ sends' = sends + 1
  /\ lastCall' = "aiMakeDecisions"
  /\ UNCHANGED <<gameLoop, now, lastTime, productionTimer, aiTimer, strategies, ret,
                 ticks, controls, probe, twin, snapshot>>

(* whether a frame of deltaTime seconds runs the AI pass *)
aiDue(deltaTime) == RLe(R(aiInterval), RAdd(aiTimer, deltaTime))

(* the deltaTime of a frame adv ms after the previous one *)
frameDelta(adv) == RMin(Rat(now + adv - lastTime, 1000), maxDeltaTime)

(* a variant of the frame that runs the production cycle before the battles *)
TickProductionFirst ==
  /\ gameLoop = "scheduled"
  /\ ticks < MaxTicks
  /\ \E adv \in Advances :
     \E rnd \in rndChoices(aiDue(frameDelta(adv))) :
     \E pt \in {RAdd(productionTimer, frameDelta(adv))} :
     \E at \in {RAdd(aiTimer, frameDelta(adv))} :
     \E s1 \in {updateUnits(engine, frameDelta(adv), now + adv)} :
     \E s2 \in {IF RLe(productionInterval, pt) THEN updateProduction(s1) ELSE s1} :
     \E s3 \in {updateBattles(s2, now + adv)} :
     \E s4 \in {IF RLe(R(aiInterval), at) THEN updateAI(s3, strategies, rnd) ELSE s3} :
     \E s5 \in {checkWinCondition(s4)} :
           /\ store(s5)
           /\ now' = now + adv
           /\ lastTime' = now + adv
           /\ productionTimer' = IF RLe(productionInterval, pt) THEN Zero ELSE pt
           /\ aiTimer' = IF RLe(R(aiInterval), at) THEN Zero ELSE at
           /\ gameLoop' = IF s5.gamePhase = "playing" THEN "scheduled" ELSE "stale"
  /\ ticks' = ticks + 1
  /\ lastCall' = "tick"
  /\ UNCHANGED <<strategies, ret, sends, controls, probe, twin, snapshot>>

(* One run of the loop callback of start(), adv ms after the previous frame: *)
(* updateUnits, updateBattles, production, AI and the win check, in order    *)
Tick ==
  /\ gameLoop = "scheduled"
  /\ ticks < MaxTicks
  /\ \E adv \in Advances :
     \E rnd \in rndChoices(aiDue(frameDelta(adv))) :
     \E pt \in {RAdd(productionTimer, frameDelta(adv))} :
     \E at \in {RAdd(aiTimer, frameDelta(adv))} :
     \E s1 \in {updateUnits(engine, frameDelta(adv), now + adv)} :
     \E s2 \in {updateBattles(s1, now + adv)} :
     \E s3 \in {IF RLe(productionInterval, pt) THEN updateProduction(s2) ELSE s2} :
     \E s4 \in {IF RLe(R(aiInterval), at) THEN updateAI(s3, strategies, rnd) ELSE s3} :
     \E s5 \in {checkWinCondition(s4)} :
           /\ store(s5)
           /\ now' = now + adv
           /\ lastTime' = now + adv
           /\ productionTimer' = IF RLe(productionInterval, pt) THEN Zero ELSE pt
           /\ aiTimer' = IF RLe(R(aiInterval), at) THEN Zero ELSE at
           /\ gameLoop' = IF s5.gamePhase = "playing" THEN "scheduled" ELSE "stale"
  /\ ticks' = ticks + 1
  /\ lastCall' = "tick"
  /\ UNCHANGED <<strategies, ret, sends, controls, probe, twin, snapshot>>

Next ==
  \/ SetCells
  \/ Start
  \/ Stop
  \/ \E a \in CellIds, b \in CellIds, c \in SendCounts : SendUnits(a, b, c)
  \/ AiMakeDecisions
  \/ Tick

Spec == Init /\ [][Next]_vars

(***************************************************************************)
(* Vocabulary of the properties                                            *)
(***************************************************************************)
knownCell(id) == \E i \in 1..Len(cells) : cells[i].id = id

theCell(id) == cells[CHOOSE i \in 1..Len(cells) : cells[i].id = id]

(* the arguments with which the dispatch contract says the call fails *)
invalidDispatch(a, b, c) ==
  \/ ~knownCell(a)
  \/ ~knownCell(b)
  \/ RLt(theCell(a).units, R(c))

(* all units held by cells plus all units in transit *)
unitsInPlay(cs, us) ==
  RAdd(RSum([i \in 1..Len(cs) |-> cs[i].units]), RSum([i \in 1..Len(us) |-> us[i].unitCount]))

(* the battle_ended events of the last call *)
endedBattles == SelectSeq(events, LAMBDA e : e.type = "battle_ended")

(* the cell of id in a list of cells *)
cellIn(cs, id) == cs[CHOOSE i \in 1..Len(cs) : cs[i].id = id]

(* the resolution that e reports changed the owner of the battle's cell *)
captured(e) == cellIn(e.after, e.battle.cellId).owner # cellIn(e.before, e.battle.cellId).owner

(* the participation-weighted force of a list of attackers at the end of a battle *)
forceAtEnd(attackers) ==
  RSum([i \in 1..Len(attackers) |->
          RMul(attackers[i].initialUnitCount,
               RMin(One, RDiv(RMax(Zero, RSub(One, attackers[i].joinProgress)), <<1, 10>>)))])

(* initialDefenderUnits x the defense bonus of the cell's type *)
effectiveDefendersOf(e) ==
  RMul(e.battle.initialDefenderUnits,
       CellTypes[cellIn(e.before, e.battle.cellId).type].defenseBonus)

(***************************************************************************)
(* C1: sendUnits returns false and changes nothing (no cell, no transit    *)
(* unit, no path, no battle, no event) when the source id or the target id *)
(* is unknown or the source holds fewer units than asked for.              *)
(***************************************************************************)
C1_InvalidDispatchRejected ==
  [][\A a \in CellIds, b \in CellIds, c \in SendCounts :
       (lastCall' = "sendUnits" /\ invalidDispatch(a, b, c) /\ SendUnits(a, b, c))
         => /\ ret' = FALSE
            /\ UNCHANGED <<cells, units, paths, battles, nextId>>
            /\ events' = <<>>]_vars

C1_Witness ==
  /\ lastCall = "sendUnits"
  /\ ret = FALSE
  /\ events = <<>>
  /\ cells # <<>>
  /\ units # <<>>

(***************************************************************************)
(* C2: a valid sendUnits returns true, debits the source by exactly count, *)
(* appends exactly one transit unit (owner of the source, the target,      *)
(* count, progress 0, at the source's position), changes no other cell and *)
(* keeps cell units + transit units constant.                              *)
(***************************************************************************)
C2_DispatchDebitsAndCreatesUnit ==
  [][\A a \in CellIds, b \in CellIds, c \in SendCounts :
       (lastCall' = "sendUnits" /\ ~invalidDispatch(a, b, c) /\ SendUnits(a, b, c))
         => /\ ret' = TRUE
            /\ Len(units') = Len(units) + 1
            /\ SubSeq(units', 1, Len(units)) = units
            /\ LET u == units'[Len(units')]
               IN  /\ u.owner = theCell(a).owner
                   /\ u.targetCellId = b
                   /\ u.unitCount = R(c)
                   /\ u.progress = Zero
                   /\ u.position = <<R(theCell(a).position[1]), R(theCell(a).position[2])>>
            /\ Len(cells') = Len(cells)
            /\ \A i \in 1..Len(cells) :
                 cells'[i] = IF cells[i].id = a
                             THEN [cells[i] EXCEPT !.units = RSub(@, R(c))]
                             ELSE cells[i]
            /\ unitsInPlay(cells', units') = unitsInPlay(cells, units)]_vars

C2_Witness ==
  /\ lastCall = "sendUnits"
  /\ ret = TRUE
  /\ Len(units) = 2
  /\ units[2].progress = Zero
  /\ units[1].progress # Zero

(***************************************************************************)
(* C3: at resolution the attackers capture the cell if and only if their   *)
(* total participation-weighted force is strictly greater than             *)
(* initialDefenderUnits x defenseBonus.                                    *)
(***************************************************************************)
C3_CaptureIffForceExceeds ==
  \A i \in 1..Len(endedBattles) :
    LET e == endedBattles[i]
    IN  captured(e) <=> RLt(effectiveDefendersOf(e), forceAtEnd(e.battle.attackers))

(***************************************************************************)
(* C4: at most one battle per cell id; a unit is an attacker of at most    *)
(* one battle.                                                             *)
(***************************************************************************)
C4_OneBattlePerCell ==
  /\ \A i, j \in 1..Len(battles) : battles[i].cellId = battles[j].cellId => i = j
  /\ \A i, j \in 1..Len(battles) :
       \A k \in 1..Len(battles[i].attackers), l \in 1..Len(battles[j].attackers) :
         battles[i].attackers[k].id = battles[j].attackers[l].id => (i = j /\ k = l)

(* two hostile units of different owners arrived in the same frame *)
C4_Witness ==
  \E i \in 1..Len(battles) :
    /\ Len(battles[i].attackers) = 2
    /\ battles[i].attackers[1].owner # battles[i].attackers[2].owner
    /\ battles[i].attackers[2].joinProgress = Zero
    /\ battles[i].progress = Zero
    /\ Len(SelectSeq(events, LAMBDA e : e.type = "battle_started")) = 1
    /\ Len(SelectSeq(events, LAMBDA e : e.type = "battle_joined")) = 1

(***************************************************************************)
(* More vocabulary: the attackers of one owner, owners, floors             *)
(***************************************************************************)
attackersOf(e, owner) == SelectSeq(e.battle.attackers, LAMBDA a : a.owner = owner)

attackerOwners(e) == {e.battle.attackers[i].owner : i \in 1..Len(e.battle.attackers)}

survivorsOf(attackers) == RSum([i \in 1..Len(attackers) |-> attackers[i].unitCount])

joinedWith(attackers) == RSum([i \in 1..Len(attackers) |-> attackers[i].initialUnitCount])

(* max(1, floor(x)) as a unit count *)
atLeastOne(x) == IF RFloor(x) < 1 THEN R(1) ELSE R(RFloor(x))

defenseBonusAt(e) == CellTypes[cellIn(e.before, e.battle.cellId).type].defenseBonus

(***************************************************************************)
(* C5: in a battle with attackers of several owners whose combined         *)
(* effective force exceeds initialDefenderUnits x defenseBonus, the cell   *)
(* goes to an owner of greatest effective force with                       *)
(* max(1, floor(that owner's surviving units)) units; every attacker is    *)
(* gone from the transit list and no other cell is credited.               *)
(***************************************************************************)
C5_GreatestFactionTakesCell ==
  \A i \in 1..Len(endedBattles) :
    LET e == endedBattles[i]
        cellAfter == cellIn(e.after, e.battle.cellId)
    IN  (/\ Cardinality(attackerOwners(e)) > 1
         /\ RLt(effectiveDefendersOf(e), forceAtEnd(e.battle.attackers)))
        => /\ cellAfter.owner \in attackerOwners(e)
           /\ \A o \in attackerOwners(e) :
                RLe(forceAtEnd(attackersOf(e, o)), forceAtEnd(attackersOf(e, cellAfter.owner)))
           /\ cellAfter.units = atLeastOne(survivorsOf(attackersOf(e, cellAfter.owner)))
           /\ \A k \in 1..Len(e.after) :
                e.after[k].id # e.battle.cellId => e.after[k] = e.before[k]
           /\ \A k \in 1..Len(e.unitsAfter), l \in 1..Len(e.battle.attackers) :
                e.unitsAfter[k].id # e.battle.attackers[l].id

(***************************************************************************)
(* C6: one attacking unit of a units against d units with bonus b,         *)
(* a > d x b, nobody joining or reinforcing: the cell goes to the          *)
(* attacker's owner with max(1, floor(a - d x b)) units.                   *)
(***************************************************************************)
C6_SingleAttackerSurvivors ==
  \A i \in 1..Len(endedBattles) :
    LET e == endedBattles[i]
        cellAfter == cellIn(e.after, e.battle.cellId)
        a == e.battle.attackers[1].initialUnitCount
    IN  (/\ Len(e.battle.attackers) = 1
         /\ e.battle.reinforced = Zero
         /\ RLt(effectiveDefendersOf(e), a))
        => /\ cellAfter.owner = e.battle.attackers[1].owner
           /\ cellAfter.units = atLeastOne(RSub(a, effectiveDefendersOf(e)))

SiegeMap ==
  << Cell("A", 0, 0, 6, "player", "standard"),
     Cell("B", 100, 0, 0, "enemy", "factory"),
     Cell("C", 200, 0, 4, "neutral", "standard") >>

SiegeCounts == {1, 2}

InitSiege ==
  /\ cells = SiegeMap
  /\ units = <<>>
  /\ paths = <<>>
  /\ battles = <<>>
  /\ gamePhase = "playing"
  /\ winner = NoId
  /\ gameLoop = "scheduled"
  /\ now = 0
  /\ lastTime = 0
  /\ productionTimer = Zero
  /\ aiTimer = Zero
  /\ strategies = << [playerId |-> "enemy", strategyType |-> "simple"] >>
  /\ nextId = 0
  /\ events = <<>>
  /\ lastCall = "start"
  /\ ret = FALSE
  /\ ticks = 0
  /\ sends = 0
  /\ controls = 0
  /\ probe = NoProbe
  /\ twin = NoTwin
  /\ snapshot = NoSnapshot

NextSiege ==
  \/ \E a \in {"A", "C"}, c \in SiegeCounts : SendUnits(a, "B", c)
  \/ Tick

SpecSiege == InitSiege /\ [][NextSiege]_vars

(***************************************************************************)
(* calculateBattleDuration applied to positive counts: wholes and halves   *)
(* up to MaxProbe                                                          *)
(***************************************************************************)
MaxProbe == 10

ProbeCounts == {Rat(k, den) : k \in 1..MaxProbe, den \in {1, 2}}

InitDuration ==
  /\ constructed
  /\ probe \in [a : ProbeCounts, d : ProbeCounts, done : {FALSE}, out : {NoProbe.out}]

ApplyDuration ==
  /\ ~probe.done
  /\ probe' = [probe EXCEPT !.done = TRUE,
                            !.out = calculateBattleDuration(probe.a, probe.d)]
  /\ lastCall' = "calculateBattleDuration"
  /\ UNCHANGED <<cells, units, paths, battles, gamePhase, winner, gameLoop, now, lastTime,
                 productionTimer, aiTimer, strategies, nextId, events, ret, ticks, sends,
                 controls, twin, snapshot>>

SpecDuration == InitDuration /\ [][ApplyDuration]_vars

probeRatio == RMax(RDiv(probe.a, probe.d), RDiv(probe.d, probe.a))

(***************************************************************************)
(* C9: for positive a and d and ratio = max(a/d, d/a),                     *)
(* calculateBattleDuration is 4 s when ratio >= 2 and 4 + 6 x (2 - ratio)  *)
(* s otherwise: always within [4, 10], 10 at ratio 1, 4 at ratios 2 and 5. *)
(***************************************************************************)
C9_DurationFormula ==
  probe.done
    => /\ probe.out.kind = "num"
       /\ probe.out.val = IF RLe(R(2), probeRatio) THEN R(4)
                          ELSE RAdd(R(4), RMul(R(6), RSub(R(2), probeRatio)))
       /\ RLe(R(4), probe.out.val)
       /\ RLe(probe.out.val, R(10))
       /\ (probeRatio = R(1) => probe.out.val = R(10))
       /\ (probeRatio \in {R(2), R(5)} => probe.out.val = R(4))

(* fewer attackers than defenders, at a ratio strictly between 1 and 2 *)
C9_Witness ==
  /\ probe.done
  /\ RLt(probe.a, probe.d)
  /\ probeRatio = <<3, 2>>
  /\ probe.out.val = R(7)

(***************************************************************************)
(* C10: the units that arrive in one frame at a cell without a battle, all *)
(* of the cell's owner, raise the cell's units by exactly the sum of their *)
(* counts (on top of what a production cycle of the same frame adds); each *)
(* emits one units_arrived and no battle is created there.  Frames in      *)
(* which the AI dispatches from a cell are left aside.                     *)
(***************************************************************************)
arrivedAt(us, usAfter, cellId) ==
  SelectSeq(us, LAMBDA u : /\ u.targetCellId = cellId
                           /\ \A k \in 1..Len(usAfter) : usAfter[k].id # u.id)

arrivalEvents(es, unitId, cellId) ==
  SelectSeq(es, LAMBDA e : e.type = "units_arrived" /\ e.unit = unitId /\ e.cellId = cellId)

(* what the production cycle among the events es, if any, adds to cell c *)
producedIn(es, c) ==
  IF c.owner # "neutral" /\ \E k \in 1..Len(es) : es[k].type = "production_cycle"
  THEN CellTypes[c.type].productionMultiplier
  ELSE Zero

C10_ReinforcementAdditivity ==
  [][lastCall' = "tick" =>
       \A ci \in 1..Len(cells) :
         LET c == cells[ci]
             arrived == arrivedAt(units, units', c.id)
         IN  (/\ arrived # <<>>
              /\ \A k \in 1..Len(battles) : battles[k].cellId # c.id
              /\ \A k \in 1..Len(arrived) : arrived[k].owner = c.owner
              /\ \A k \in 1..Len(events') : events'[k].type # "units_sent")
             => /\ cells'[ci].units =
                     RAdd(RAdd(c.units, RSum([k \in 1..Len(arrived) |-> arrived[k].unitCount])),
                          producedIn(events', c))
                /\ cells'[ci].owner = c.owner
                /\ \A k \in 1..Len(arrived) :
                     Len(arrivalEvents(events', arrived[k].id, c.id)) = 1
                /\ \A k \in 1..Len(battles') : battles'[k].cellId # c.id]_vars

(* two units reinforced the same cell in one frame *)
C10_Witness ==
  /\ lastCall = "tick"
  /\ \E i, j \in 1..Len(events) :
       /\ i < j
       /\ events[i].type = "units_arrived"
       /\ events[j].type = "units_arrived"
       /\ events[i].cellId = events[j].cellId
  /\ \A k \in 1..Len(events) : events[k].type \notin {"production_cycle", "units_sent"}
  /\ battles = <<>>

(***************************************************************************)
(* C11: a unit that arrives in a frame at a cell of its own owner where a  *)
(* battle is active reinforces the defenders: in the arrival step the      *)
(* battle's defenderUnits and the cell's units both grow by the unit's     *)
(* count, one defenders_reinforced event is emitted for it, it leaves the  *)
(* transit list and it is no attacker of any battle.                       *)
(***************************************************************************)
reinforcementsOf(es, unitId) ==
  SelectSeq(es, LAMBDA e : e.type = "defenders_reinforced" /\ e.unit = unitId)

(* the unit is an attacker of a battle of bs, or of one that ended among es *)
attacksIn(bs, es, unitId) ==
  \/ \E k \in 1..Len(bs) : \E a \in 1..Len(bs[k].attackers) : bs[k].attackers[a].id = unitId
  \/ \E k \in 1..Len(es) :
        /\ es[k].type = "battle_ended"
        /\ \E a \in 1..Len(es[k].battle.attackers) : es[k].battle.attackers[a].id = unitId

C11_ReinforcementDuringBattle ==
  [][lastCall' = "tick" =>
       \A ui \in 1..Len(units) :
         LET u == units[ui]
         IN  (/\ \A k \in 1..Len(units') : units'[k].id # u.id
              /\ \E ci \in 1..Len(cells) :
                    cells[ci].id = u.targetCellId /\ cells[ci].owner = u.owner
              /\ \E k \in 1..Len(battles) : battles[k].cellId = u.targetCellId)
             => /\ Len(reinforcementsOf(events', u.id)) = 1
                /\ LET e == reinforcementsOf(events', u.id)[1]
                   IN  /\ e.cellId = u.targetCellId
                       /\ e.reinforcementBonus = u.unitCount
                       /\ e.defenderUnits = RAdd(e.defendersBefore, u.unitCount)
                       /\ e.cellUnits = RAdd(e.cellBefore, u.unitCount)
                /\ ~attacksIn(battles', events', u.id)
                /\ \A k \in 1..Len(events') :
                     events'[k].type \in {"units_arrived", "battle_joined"}
                       => events'[k].unit # u.id]_vars

(* a party of the defending owner has reinforced a cell under attack *)
C11_Witness ==
  /\ lastCall = "tick"
  /\ \E k \in 1..Len(events) :
       /\ events[k].type = "defenders_reinforced"
       /\ RLt(Zero, events[k].reinforcementBonus)
       /\ \E b \in 1..Len(battles) : battles[b].id = events[k].battle

(***************************************************************************)
(* The siege under fair scheduling: the loop callback asks for the next    *)
(* animation frame at the end of every frame in which the game is still    *)
(* being played, so a scheduled frame eventually runs.  Callers may also   *)
(* send an empty party, which sendUnits accepts (source.units < 0 is       *)
(* false).                                                                 *)
(***************************************************************************)
FairCounts == {0, 1, 2}

NextFair ==
  \/ \E a \in {"A", "C"}, c \in FairCounts : SendUnits(a, "B", c)
  \/ Tick

(* A frame seen through the two variables that only Tick changes this way: *)
(* it is enabled exactly when Tick is, and among the steps of NextFair it  *)
(* is taken exactly by Tick, so its weak fairness is that of Tick.         *)
FrameRuns ==
  /\ gameLoop = "scheduled"
  /\ ticks < MaxTicks
  /\ ticks' = ticks + 1
  /\ lastCall' = "tick"

SpecFair == InitSiege /\ [][NextFair]_vars /\ WF_<<ticks, lastCall>>(FrameRuns)

(* the ids generateId can have given to a battle *)
BattleIds == 1..(3 * MaxSends)

hasBattle(id) == \E k \in 1..Len(battles) : battles[k].id = id

(* frames in which the longest battle (maxDuration s) is over, at one frame *)
(* per smallest advance                                                     *)
framesOfLongestBattle ==
  CHOOSE n \in 1..MaxTicks :
    /\ \A adv \in Advances : n * adv >= maxDuration * 1000
    /\ \A m \in 1..(n - 1) : \E adv \in Advances : m * adv < maxDuration * 1000

(***************************************************************************)
(* C12: under fair ticking every battle that is active, with enough frames *)
(* left to cover the longest duration, eventually leaves the active list.  *)
(***************************************************************************)
C12_BattleEventuallyResolves ==
  \A id \in BattleIds :
    (hasBattle(id) /\ ticks + framesOfLongestBattle <= MaxTicks) ~> ~hasBattle(id)

(***************************************************************************)
(* C13: a battle leaves the active list only in a frame by whose time it   *)
(* has run for its whole duration (progress 1); in every other step it     *)
(* stays in the list, its progress a number within [0, 1] that does not    *)
(* decrease.                                                               *)
(***************************************************************************)
(* at time the battle has run for its whole duration *)
reachedFullProgress(b, time) ==
  /\ b.duration.kind = "num"
  /\ RLe(b.duration.val, R(time - b.startTime))

C13_RemovedOnlyAtFullProgress ==
  [][\A bi \in 1..Len(battles) :
       LET b == battles[bi]
       IN  IF \A k \in 1..Len(battles') : battles'[k].id # b.id
           THEN lastCall' = "tick" /\ reachedFullProgress(b, now')
           ELSE \A k \in 1..Len(battles') :
                  battles'[k].id = b.id
                    => /\ ~battles'[k].isNaN
                       /\ RLe(Zero, battles'[k].progress)
                       /\ RLe(battles'[k].progress, One)
                       /\ RLe(b.progress, battles'[k].progress)]_vars

(***************************************************************************)
(* C14: while a battle is active no step, a join or a reinforcement of the *)
(* defenders included, changes its startTime, duration,                    *)
(* initialAttackerUnits or initialDefenderUnits, and its attacker list     *)
(* only grows at the end: the attackers it had stay, in the same order.    *)
(***************************************************************************)
attackerIds(b) == [a \in 1..Len(b.attackers) |-> b.attackers[a].id]

C14_SnapshotsImmutable ==
  [][\A bi \in 1..Len(battles) : \A k \in 1..Len(battles') :
       battles'[k].id = battles[bi].id
         => /\ battles'[k].startTime = battles[bi].startTime
            /\ battles'[k].duration = battles[bi].duration
            /\ battles'[k].initialAttackerUnits = battles[bi].initialAttackerUnits
            /\ battles'[k].initialDefenderUnits = battles[bi].initialDefenderUnits
            /\ battles'[k].cellId = battles[bi].cellId
            /\ Len(battles[bi].attackers) <= Len(battles'[k].attackers)
            /\ SubSeq(attackerIds(battles'[k]), 1, Len(battles[bi].attackers))
                 = attackerIds(battles[bi])]_vars

(* a frame in which a party joined a battle that had started in an earlier *)
(* frame                                                                   *)
C14_Witness ==
  /\ lastCall = "tick"
  /\ \E b \in 1..Len(battles) :
       /\ battles[b].startTime < now
       /\ \E k \in 1..Len(events) :
            events[k].type = "battle_joined" /\ events[k].battle = battles[b].id

(***************************************************************************)
(* Late in a run: the engine after setCells, start() and fourteen frames,  *)
(* stop(), start() and one more frame, then setCells(LateMap).  The AI     *)
(* timer, which stop() and start() leave alone, stands at 1.5 s; the       *)
(* production timer, which start() began anew, at one frame.  Five frames  *)
(* on, the production cycle and the AI pass fall in the same frame.        *)
(***************************************************************************)
LateMap ==
  << Cell("A", 0, 0, 2, "player", "standard"),
     Cell("B", 100, 0, 1, "neutral", "standard"),
     Cell("C", 200, 0, 9, "enemy", "standard") >>

LateFrames == 15

InitLate ==
  /\ cells = LateMap
  /\ units = <<>>
  /\ paths = <<>>
  /\ battles = <<>>
  /\ gamePhase = "playing"
  /\ winner = NoId
  /\ gameLoop = "scheduled"
  /\ now = LateFrames * 1900
  /\ lastTime = LateFrames * 1900
  /\ productionTimer = maxDeltaTime
  /\ aiTimer = RMul(R(LateFrames), maxDeltaTime)
  /\ strategies = << [playerId |-> "enemy", strategyType |-> "simple"] >>
  /\ nextId = 0
  /\ events = << [type |-> "state_changed"] >>
  /\ lastCall = "setCells"
  /\ ret = FALSE
  /\ ticks = 0
  /\ sends = 0
  /\ controls = 0
  /\ probe = NoProbe
  /\ twin = NoTwin
  /\ snapshot = NoSnapshot

NextLate ==
  \/ \E a \in {"A", "B", "C"}, b \in {"A", "B", "C"}, c \in SendCounts : SendUnits(a, b, c)
  \/ Tick

SpecLate == InitLate /\ [][NextLate]_vars

(***************************************************************************)
(* C15: the phases of a frame run in a fixed order and one after the       *)
(* other: movement and arrivals, then the battles, then the production     *)
(* cycle (only in a frame where the production interval has elapsed), then *)
(* the AI pass (only in a frame where 2 s have accumulated), then the win  *)
(* check.  Seen in the frame's events, which never go back to an earlier   *)
(* phase, and in its effects: production adds to the units a battle of the *)
(* frame has left in its cell, and the AI sizes its party from the units   *)
(* that production has left in the source.                                 *)
(***************************************************************************)
phaseOf(type) ==
  CASE type \in {"units_arrived", "battle_started", "battle_joined",
                 "defenders_reinforced", "state_changed"} -> 1
    [] type \in {"battle_progress", "cell_captured", "battle_ended"} -> 2
    [] type = "production_cycle" -> 3
    [] type = "units_sent" -> 4
    [] type = "game_ended" -> 5

hasEvent(es, type) == \E k \in 1..Len(es) : es[k].type = type

(* the units of the AI parties among the events es that left from cell id *)
sentFrom(es, us, ps, id) ==
  SelectSeq(us, LAMBDA u :
    \E k \in 1..Len(es) : \E p \in 1..Len(ps) :
      /\ es[k].type = "units_sent"
      /\ es[k].unit = u.id
      /\ es[k].path = ps[p].id
      /\ ps[p].sourceCellId = id)

(* no arrival and no battle touches the cell in the step *)
quietCell(id) ==
  /\ \A k \in 1..Len(units) : units[k].targetCellId # id
  /\ \A k \in 1..Len(battles) : battles[k].cellId # id

C15_PhaseOrder ==
  [][lastCall' = "tick" =>
       /\ \A i, j \in 1..Len(events') :
            i < j => phaseOf(events'[i].type) <= phaseOf(events'[j].type)
       /\ hasEvent(events', "production_cycle")
            <=> RLe(productionInterval, RAdd(productionTimer, frameDelta(now' - now)))
       /\ hasEvent(events', "units_sent") => aiDue(frameDelta(now' - now))
       /\ aiTimer' = Zero <=> aiDue(frameDelta(now' - now))
       /\ Len(SelectSeq(events', LAMBDA e : e.type = "production_cycle")) <= 1
       /\ Len(SelectSeq(events', LAMBDA e : e.type = "game_ended")) <= 1
       /\ \A k \in 1..Len(events') :
            (/\ events'[k].type = "battle_ended"
             /\ hasEvent(events', "production_cycle")
             /\ sentFrom(events', units', paths', events'[k].battle.cellId) = <<>>)
            => \E ci \in 1..Len(cells') :
                 /\ cells'[ci].id = events'[k].battle.cellId
                 /\ cells'[ci] = producedCell(cellIn(events'[k].after, cells'[ci].id))
       /\ \A ci \in 1..Len(cells) :
            LET sent == sentFrom(events', units', paths', cells[ci].id)
                had == IF hasEvent(events', "production_cycle")
                       THEN producedCell(cells[ci]).units ELSE cells[ci].units
            IN  (quietCell(cells[ci].id) /\ sent # <<>>)
                => /\ Len(sent) = 1
                   /\ sent[1].unitCount = atLeastOne(RDiv(RSub(had, One), R(2)))
                   /\ cells'[ci].units = RSub(had, sent[1].unitCount)]_vars

(* a frame in which all five phases left their mark *)
C15_Witness ==
  /\ lastCall = "tick"
  /\ \E a, b, c, d, e \in 1..Len(events) :
       /\ a < b /\ b < c /\ c < d /\ d < e
       /\ events[a].type \in {"units_arrived", "battle_started", "battle_joined",
                              "defenders_reinforced"}
       /\ events[b].type = "battle_ended"
       /\ events[c].type = "production_cycle"
       /\ events[d].type = "units_sent"
       /\ events[e].type = "game_ended"

(***************************************************************************)
(* C16: the battle phase of a frame leaves alone the battles that the      *)
(* arrivals of the same frame have created: the frame emits no             *)
(* battle_progress and no battle_ended for a battle whose battle_started   *)
(* it has emitted.                                                         *)
(***************************************************************************)
C16_NewBattleWaitsOneTick ==
  lastCall = "tick"
    => \A i, j \in 1..Len(events) :
         events[i].type = "battle_started"
           => /\ ~(events[j].type = "battle_progress" /\ events[j].battle = events[i].battle)
              /\ ~(events[j].type = "battle_ended" /\ events[j].battle.id = events[i].battle)

(***************************************************************************)
(* updateProduction applied to a map whose first cell is of any owner and  *)
(* type and holds up to MaxStock units, while a party is on its way from C *)
(* to B: the engine after setCells, start() and sendUnits("C", "B", 1).    *)
(***************************************************************************)
MaxStock == 6

ProbeOwners == {"player", "enemy", "neutral"}

ProbeTypes == {"standard", "factory", "depot", "ruin"}

ProbeMaps ==
  { << Cell("A", 0, 0, n, owner, type),
       Cell("B", 100, 0, 4, "neutral", "factory"),
       Cell("C", 200, 0, 4, "enemy", "depot") >> :
    n \in 0..MaxStock, owner \in ProbeOwners, type \in ProbeTypes }

InitProduction ==
  \E map \in ProbeMaps :
  \E r \in {sendUnits([cells |-> map, units |-> <<>>, paths |-> <<>>, battles |-> <<>>,
                       gamePhase |-> "playing", winner |-> NoId, nextId |-> 0,
                       events |-> <<>>],
                      "C", "B", One, "straight")} :
    /\ cells = r.s.cells
    /\ units = r.s.units
    /\ paths = r.s.paths
    /\ battles = r.s.battles
    /\ gamePhase = r.s.gamePhase
    /\ winner = r.s.winner
    /\ nextId = r.s.nextId
    /\ events = r.s.events
    /\ ret = r.ret
    /\ gameLoop = "scheduled"
    /\ now = 0
    /\ lastTime = 0
    /\ productionTimer = Zero
    /\ aiTimer = Zero
    /\ strategies = << [playerId |-> "enemy", strategyType |-> "simple"] >>
    /\ lastCall = "sendUnits"
    /\ ticks = 0
    /\ sends = 1
    /\ controls = 0
    /\ probe = NoProbe
    /\ twin = NoTwin
    /\ snapshot = NoSnapshot

ApplyProduction ==
  /\ ~probe.done
  /\ \E s \in {updateProduction(engine)} : store(s)
  /\ probe' = [probe EXCEPT !.done = TRUE]
  /\ lastCall' = "updateProduction"
  /\ UNCHANGED <<gameLoop, now, lastTime, productionTimer, aiTimer, strategies, ret,
                 ticks, sends, controls, twin, snapshot>>

SpecProduction == InitProduction /\ [][ApplyProduction]_vars

(***************************************************************************)
(* C17: a production cycle sets the units of every cell that is not        *)
(* neutral to units + type.productionMultiplier, and to the type's         *)
(* maxUnits if that is less and the type has a cap; it leaves the neutral  *)
(* cells, every owner, the transit units, the paths and the battles as     *)
(* they were.                                                              *)
(***************************************************************************)
capped(type) == CellTypes[type].maxUnits # Zero

productionOf(c) ==
  LET grown == RAdd(c.units, CellTypes[c.type].productionMultiplier)
  IN  IF c.owner = "neutral" THEN c.units
      ELSE IF capped(c.type) THEN RMin(grown, CellTypes[c.type].maxUnits)
      ELSE grown

C17_ProductionCycle ==
  [][lastCall' = "updateProduction" =>
       /\ Len(cells') = Len(cells)
       /\ \A ci \in 1..Len(cells) :
            cells'[ci] = [cells[ci] EXCEPT !.units = productionOf(cells[ci])]
       /\ units' = units
       /\ paths' = paths
       /\ battles' = battles]_vars

(***************************************************************************)
(* The siege with a change of map: while parties are on their way to B, a  *)
(* caller replaces the cells by a map that has no cell B any more.         *)
(***************************************************************************)
ShrunkMaps ==
  { << Cell("A", 0, 0, 6, "player", "standard"),
       Cell("C", 200, 0, 4, "enemy", "standard") >> }

(* setCells(cells) with a map of ShrunkMaps *)
ReplaceCells ==
  /\ controls < MaxControl
  /\ \E map \in ShrunkMaps :
     \E s \in {emit([engine EXCEPT !.cells = map], [type |-> "state_changed"])} : store(s)
  /\ controls' = controls + 1
  /\ lastCall' = "setCells"
  /\ UNCHANGED <<gameLoop, now, lastTime, productionTimer, aiTimer, strategies, ret,
                 ticks, sends, probe, twin, snapshot>>

NextRemap ==
  \/ \E a \in {"A", "C"}, c \in SiegeCounts : SendUnits(a, "B", c)
  \/ ReplaceCells
  \/ Tick

SpecRemap == InitSiege /\ [][NextRemap]_vars

(***************************************************************************)
(* C18: a transit unit whose target cell is no longer among the cells is   *)
(* dropped by the movement phase: after a frame, every unit of the transit *)
(* list has its target among the cells.                                    *)
(***************************************************************************)
C18_OrphanUnitDropped ==
  lastCall = "tick"
    => \A k \in 1..Len(units) : cellIndex(cells, units[k].targetCellId) # 0

(***************************************************************************)
(* Two AI players: the engine after addAIPlayer for 'player' (the enemy's  *)
(* strategy is registered by the constructor, so it comes first),          *)
(* setCells(AiMap) and start().  The enemy holds A, B and C, each next to  *)
(* a neutral cell; B holds half a unit.  The player's D has A as its       *)
(* closest cell of another owner.                                          *)
(***************************************************************************)
AiMap ==
  << Cell("A", 0, 0, 4, "enemy", "standard"),
     [Cell("B", 0, 1000, 0, "enemy", "standard") EXCEPT !.units = <<1, 2>>],
     Cell("C", 0, 2000, 7, "enemy", "standard"),
     Cell("D", -150, 0, 10, "player", "standard"),
     Cell("N1", 100, 0, 1, "neutral", "standard"),
     Cell("N2", 100, 1000, 0, "neutral", "standard"),
     Cell("N3", 100, 2000, 1, "neutral", "standard") >>

InitAI ==
  /\ cells = AiMap
  /\ units = <<>>
  /\ paths = <<>>
  /\ battles = <<>>
  /\ gamePhase = "playing"
  /\ winner = NoId
  /\ gameLoop = "scheduled"
  /\ now = 0
  /\ lastTime = 0
  /\ productionTimer = Zero
  /\ aiTimer = Zero
  /\ strategies = << [playerId |-> "enemy", strategyType |-> "simple"],
                     [playerId |-> "player", strategyType |-> "simple"] >>
  /\ nextId = 0
  /\ events = <<>>
  /\ lastCall = "start"
  /\ ret = FALSE
  /\ ticks = 0
  /\ sends = 0
  /\ controls = 0
  /\ probe = NoProbe
  /\ twin = NoTwin
  /\ snapshot = NoSnapshot

NextAI ==
  \/ AiMakeDecisions
  \/ Tick

SpecAI == InitAI /\ [][NextAI]_vars

(***************************************************************************)
(* C19: an AI pass takes the players in the order of their registration;   *)
(* the decisions of a player are made on the cells as the earlier players' *)
(* dispatches have left them, and are dispatched in order, each against    *)
(* the cells left by those before it: a decision that asks for more than   *)
(* its source still holds changes nothing, the ones before and after it    *)
(* are dispatched.                                                         *)
(***************************************************************************)
(* a decision can be dispatched from the cells cs *)
affordable(d, cs) ==
  /\ cellIndex(cs, d.sourceCellId) # 0
  /\ cellIndex(cs, d.targetCellId) # 0
  /\ RLe(d.unitCount, cs[cellIndex(cs, d.sourceCellId)].units)

(* the cells and the parties after the decisions, taken in order *)
RECURSIVE dispatched(_, _, _)
dispatched(decisions, cs, parties) ==
  IF decisions = <<>> THEN [cells |-> cs, parties |-> parties]
  ELSE LET d == Head(decisions)
           si == cellIndex(cs, d.sourceCellId)
       IN  IF affordable(d, cs)
           THEN dispatched(Tail(decisions),
                           [cs EXCEPT ![si].units = RSub(@, d.unitCount)],
                           Append(parties, [owner |-> cs[si].owner,
                                            targetCellId |-> d.targetCellId,
                                            unitCount |-> d.unitCount]))
           ELSE dispatched(Tail(decisions), cs, parties)

(* the cells and the parties after the pass of the players, taken in order *)
RECURSIVE passOf(_, _, _)
passOf(players, cs, parties) ==
  IF players = <<>> THEN [cells |-> cs, parties |-> parties]
  ELSE LET r == dispatched(simpleMakeDecisions(Head(players).playerId, cs), cs, parties)
       IN  passOf(Tail(players), r.cells, r.parties)

C19_AiPassInOrder ==
  [][lastCall' = "aiMakeDecisions" =>
       LET expected == passOf(strategies, cells, <<>>)
           sent == SubSeq(units', Len(units) + 1, Len(units'))
       IN  /\ Len(units) <= Len(units')
           /\ SubSeq(units', 1, Len(units)) = units
           /\ cells' = expected.cells
           /\ [k \in 1..Len(sent) |-> [owner |-> sent[k].owner,
                                        targetCellId |-> sent[k].targetCellId,
                                        unitCount |-> sent[k].unitCount]]
                = expected.parties
           /\ battles' = battles]_vars

(* a pass in which the enemy's second decision asked for more than B held  *)
(* and changed nothing, its first and third were dispatched, and the       *)
(* player attacked A because the enemy's first party had left it           *)
C19_Witness ==
  /\ lastCall = "aiMakeDecisions"
  /\ Len(units) = 3
  /\ units[1].owner = "enemy" /\ units[1].targetCellId = "N1"
  /\ units[2].owner = "enemy" /\ units[2].targetCellId = "N3"
  /\ units[3].owner = "player" /\ units[3].targetCellId = "A"
  /\ cells[1].units = R(3)
  /\ cells[2].units = <<1, 2>>
  /\ ~RLt(RMul(R(3), R(4)), RAdd(cells[4].units, units[3].unitCount))
  /\ RLt(RMul(R(3), cells[1].units), RAdd(cells[4].units, units[3].unitCount))

(***************************************************************************)
(* Two runs side by side: two engines after the same setCells and start()  *)
(* receive the same calls of sendUnits and run their frames at the same    *)
(* times.  Each draws its own path curves, and generateId gives the second *)
(* one other ids than the first (its count of ids starts at IdShift).  The *)
(* cells are those of the siege, or the same with B held by the player, so *)
(* that a party from A reinforces B while a party from C attacks it.       *)
(***************************************************************************)
IdShift == 100

HeldMap ==
  << Cell("A", 0, 0, 6, "player", "standard"),
     Cell("B", 100, 0, 0, "player", "factory"),
     Cell("C", 200, 0, 4, "enemy", "standard") >>

TwinMaps == {SiegeMap, HeldMap}

InitTwin ==
  /\ cells \in TwinMaps
  /\ units = <<>>
  /\ paths = <<>>
  /\ battles = <<>>
  /\ gamePhase = "playing"
  /\ winner = NoId
  /\ gameLoop = "scheduled"
  /\ now = 0
  /\ lastTime = 0
  /\ productionTimer = Zero
  /\ aiTimer = Zero
  /\ strategies = << [playerId |-> "enemy", strategyType |-> "simple"] >>
  /\ nextId = 0
  /\ events = <<>>
  /\ lastCall = "start"
  /\ ret = FALSE
  /\ ticks = 0
  /\ sends = 0
  /\ controls = 0
  /\ probe = NoProbe
  /\ twin = [cells |-> cells, units |-> <<>>, paths |-> <<>>, battles |-> <<>>,
             gamePhase |-> "playing", winner |-> NoId, nextId |-> IdShift,
             events |-> <<>>]
  /\ snapshot = NoSnapshot

(* the second engine at the start of a call, with nothing emitted yet *)
twinEngine == [twin EXCEPT !.events = <<>>]

(* sendUnits(sourceCellId, targetCellId, unitCount) called on both engines *)
TwinSendUnits(sourceCellId, targetCellId, unitCount) ==
  /\ sends < MaxSends
  /\ \E curve \in curveChoices(engine, sourceCellId, targetCellId) :
     \E curve2 \in curveChoices(twinEngine, sourceCellId, targetCellId) :
     \E r \in {sendUnits(engine, sourceCellId, targetCellId, R(unitCount), curve)} :
     \E r2 \in {sendUnits(twinEngine, sourceCellId, targetCellId, R(unitCount), curve2)} :
           /\ store(r.s)
           /\ twin' = r2.s
           /\ ret' = r.ret
           /\ sends' = IF r.ret THEN sends + 1 ELSE sends
  /\ lastCall' = "sendUnits"
  /\ UNCHANGED <<gameLoop, now, lastTime, productionTimer, aiTimer, strategies,
                 ticks, controls, probe, snapshot>>

(* a frame of both engines, adv ms after the previous one *)
TwinTick ==
  /\ gameLoop = "scheduled"
  /\ ticks < MaxTicks
  /\ \E adv \in Advances :
     \E rnd \in rndChoices(aiDue(frameDelta(adv))) :
     \E rnd2 \in rndChoices(aiDue(frameDelta(adv))) :
     \E pt \in {RAdd(productionTimer, frameDelta(adv))} :
     \E at \in {RAdd(aiTimer, frameDelta(adv))} :
     \E s1 \in {updateUnits(engine, frameDelta(adv), now + adv)} :
     \E s2 \in {updateBattles(s1, now + adv)} :
     \E s3 \in {IF RLe(productionInterval, pt) THEN updateProduction(s2) ELSE s2} :
     \E s4 \in {IF RLe(R(aiInterval), at) THEN updateAI(s3, strategies, rnd) ELSE s3} :
     \E s5 \in {checkWinCondition(s4)} :
     \E t1 \in {updateUnits(twinEngine, frameDelta(adv), now + adv)} :
     \E t2 \in {updateBattles(t1, now + adv)} :
     \E t3 \in {IF RLe(productionInterval, pt) THEN updateProduction(t2) ELSE t2} :
     \E t4 \in {IF RLe(R(aiInterval), at) THEN updateAI(t3, strategies, rnd2) ELSE t3} :
     \E t5 \in {checkWinCondition(t4)} :
           /\ store(s5)
           /\ twin' = t5
           /\ now' = now + adv
           /\ lastTime' = now + adv
           /\ productionTimer' = IF RLe(productionInterval, pt) THEN Zero ELSE pt
           /\ aiTimer' = IF RLe(R(aiInterval), at) THEN Zero ELSE at
           /\ gameLoop' = IF s5.gamePhase = "playing" THEN "scheduled" ELSE "stale"
  /\ ticks' = ticks + 1
  /\ lastCall' = "tick"
  /\ UNCHANGED <<strategies, ret, sends, controls, probe, snapshot>>

NextTwin ==
  \/ \E a \in {"A", "C"}, c \in SiegeCounts : TwinSendUnits(a, "B", c)
  \/ TwinTick

SpecTwin == InitTwin /\ [][NextTwin]_vars

(***************************************************************************)
(* C20: two runs from the same cells, with the same dispatches and the     *)
(* same frame times, end every battle alike, whatever curves their paths   *)
(* drew and whatever ids they were given: in every frame the battles that  *)
(* end are at the same cells, in the same order, with the same winner, and *)
(* leave the same owner and units in every cell; the two runs agree on the *)
(* cells, the phase and the winner at all times.  Within a run no id is    *)
(* generated twice, as generateId is modelled throughout.                  *)
(***************************************************************************)
(* cell, winner, and the owners and units of the cells, for each battle that ended *)
battleOutcomes(es) ==
  LET ended == SelectSeq(es, LAMBDA e : e.type = "battle_ended")
  IN  [k \in 1..Len(ended) |->
         [cellId |-> ended[k].battle.cellId,
          winner |-> ended[k].winner,
          cells |-> [i \in 1..Len(ended[k].after) |->
                       [id |-> ended[k].after[i].id,
                        owner |-> ended[k].after[i].owner,
                        units |-> ended[k].after[i].units]]]]

cellView(c) == [id |-> c.id, owner |-> c.owner, units |-> c.units]
unitView(u) == [id |-> u.id, owner |-> u.owner, targetCellId |-> u.targetCellId,
                unitCount |-> u.unitCount, progress |-> u.progress]
battleView(b) == [id |-> b.id, cellId |-> b.cellId, progress |-> b.progress,
                  isNaN |-> b.isNaN, defenderUnits |-> b.defenderUnits,
                  attackers |-> [k \in 1..Len(b.attackers) |-> b.attackers[k].id]]

viewOf(s) ==
  [cells |-> [i \in 1..Len(s.cells) |-> cellView(s.cells[i])],
   units |-> [i \in 1..Len(s.units) |-> unitView(s.units[i])],
   battles |-> [i \in 1..Len(s.battles) |-> battleView(s.battles[i])]]

(* the battles a frame completed, as resolveBattle left them *)
completedIn(s) ==
  LET ended == SelectSeq(s.events, LAMBDA e : e.type = "battle_ended")
  IN  [k \in 1..Len(ended) |-> ended[k].battle]

(* every unit object the engine still works on after a frame: the transit  *)
(* list and the attackers of the battles it kept or completed              *)
RECURSIVE attackersOfAll(_)
attackersOfAll(bs) ==
  IF bs = <<>> THEN <<>> ELSE Head(bs).attackers \o attackersOfAll(Tail(bs))

(* the unit object with this id after a frame that started in state s0,    *)
(* ran updateUnits with deltaTime and ended in state s                     *)
unitAfterFrame(old, s0, s, deltaTime) ==
  LET held == s.units \o attackersOfAll(s.battles) \o attackersOfAll(completedIn(s))
      hi == FindIndex(held, LAMBDA u : u.id = old.id)
      pi == FindIndex(s0.units, LAMBDA u : u.id = old.id)
  IN  IF hi # 0 THEN unitView(held[hi])
      ELSE IF pi # 0 THEN unitView(movedUnit(s0, s0.units[pi], deltaTime))
      ELSE old

(* the battle object with this id after a frame that ended in state s *)
battleAfterFrame(old, s) ==
  LET held == s.battles \o completedIn(s)
      hi == FindIndex(held, LAMBDA b : b.id = old.id)
  IN  IF hi # 0 THEN battleView(held[hi]) ELSE old

(* what the result of getState() shows after sendUnits left the engine in s *)
seenAfterSend(snap, s) ==
  [cells |-> viewOf(s).cells,
   units |-> IF snap.sharesUnits THEN viewOf(s).units ELSE snap.seen.units,
   battles |-> snap.seen.battles]

(* what it shows after a frame from s0 to s, s1 being the state between    *)
(* updateUnits and updateBattles                                           *)
seenAfterFrame(snap, s0, s1, s, deltaTime) ==
  LET bs == IF snap.sharesBattles THEN viewOf(s1).battles ELSE snap.seen.battles
  IN  [cells |-> viewOf(s).cells,
       units |-> [i \in 1..Len(snap.seen.units) |->
                    unitAfterFrame(snap.seen.units[i], s0, s, deltaTime)],
       battles |-> [i \in 1..Len(bs) |-> battleAfterFrame(bs[i], s)]]

SnapMap ==
  << Cell("A", 0, 0, 6, "player", "standard"),
     Cell("B", 100, 0, 2, "enemy", "factory"),
     Cell("C", 200, 0, 4, "neutral", "standard") >>

InitSnapshot ==
  /\ cells = SnapMap
  /\ units = <<>>
  /\ paths = <<>>
  /\ battles = <<>>
  /\ gamePhase = "playing"
  /\ winner = NoId
  /\ gameLoop = "scheduled"
  /\ now = 0
  /\ lastTime = 0
  /\ productionTimer = Zero
  /\ aiTimer = Zero
  /\ strategies = << [playerId |-> "enemy", strategyType |-> "simple"] >>
  /\ nextId = 0
  /\ events = <<>>
  /\ lastCall = "start"
  /\ ret = FALSE
  /\ ticks = 0
  /\ sends = 0
  /\ controls = 0
  /\ probe = NoProbe
  /\ twin = NoTwin
  /\ snapshot = NoSnapshot

(* getState(), called once by a renderer that keeps the result *)
GetState ==
  /\ ~snapshot.taken
  /\ snapshot' = [taken |-> TRUE, returned |-> viewOf(engine), seen |-> viewOf(engine),
                  sharesUnits |-> TRUE, sharesBattles |-> TRUE]
  /\ events' = <<>>
  /\ lastCall' = "getState"
  /\ UNCHANGED <<cells, units, paths, battles, gamePhase, winner, gameLoop, now, lastTime,
                 productionTimer, aiTimer, strategies, nextId, ret, ticks, sends,
                 controls, probe, twin>>

(* sendUnits while a renderer may hold a result of getState() *)
SnapSendUnits(sourceCellId, targetCellId, unitCount) ==
  /\ sends < MaxSends
  /\ \E curve \in curveChoices(engine, sourceCellId, targetCellId) :
     \E r \in {sendUnits(engine, sourceCellId, targetCellId, R(unitCount), curve)} :
           /\ store(r.s)
           /\ ret' = r.ret
           /\ sends' = IF r.ret THEN sends + 1 ELSE sends
           /\ snapshot' = IF snapshot.taken
                          THEN [snapshot EXCEPT !.seen = seenAfterSend(snapshot, r.s)]
                          ELSE snapshot
  /\ lastCall' = "sendUnits"
  /\ UNCHANGED <<gameLoop, now, lastTime, productionTimer, aiTimer, strategies,
                 ticks, controls, probe, twin>>

(* a frame while a renderer may hold a result of getState() *)
SnapTick ==
  /\ gameLoop = "scheduled"
  /\ ticks < MaxTicks
  /\ \E adv \in Advances :
     \E rnd \in rndChoices(aiDue(frameDelta(adv))) :
     \E pt \in {RAdd(productionTimer, frameDelta(adv))} :
     \E at \in {RAdd(aiTimer, frameDelta(adv))} :
     \E s0 \in {engine} :
     \E s1 \in {updateUnits(s0, frameDelta(adv), now + adv)} :
     \E s2 \in {updateBattles(s1, now + adv)} :
     \E s3 \in {IF RLe(productionInterval, pt) THEN updateProduction(s2) ELSE s2} :
     \E s4 \in {IF RLe(R(aiInterval), at) THEN updateAI(s3, strategies, rnd) ELSE s3} :
     \E s5 \in {checkWinCondition(s4)} :
           /\ store(s5)
           /\ now' = now + adv
           /\ lastTime' = now + adv
           /\ productionTimer' = IF RLe(productionInterval, pt) THEN Zero ELSE pt
           /\ aiTimer' = IF RLe(R(aiInterval), at) THEN Zero ELSE at
           /\ gameLoop' = IF s5.gamePhase = "playing" THEN "scheduled" ELSE "stale"
           /\ snapshot' = IF snapshot.taken
                          THEN [snapshot EXCEPT
                                  !.seen = seenAfterFrame(snapshot, s0, s1, s5,
                                                          frameDelta(adv)),
                                  !.sharesUnits = FALSE,
                                  !.sharesBattles = FALSE]
                          ELSE snapshot
  /\ ticks' = ticks + 1
  /\ lastCall' = "tick"
  /\ UNCHANGED <<strategies, ret, sends, controls, probe, twin>>

NextSnapshot ==
  \/ GetState
  \/ \E a \in {"A", "C"}, c \in SiegeCounts : SnapSendUnits(a, "B", c)
  \/ SnapTick

SpecSnapshot == InitSnapshot /\ [][NextSnapshot]_vars

(***************************************************************************)
(* C21: once getState() has returned, the cells' units and owners, the     *)
(* transit units and the battles seen through the returned value stay what *)
(* they were when it returned, whatever the engine does afterwards.        *)
(***************************************************************************)
C21_SnapshotImmutable ==
  snapshot.taken => snapshot.seen = snapshot.returned

(***************************************************************************)
(* The registry of AI players at work: the engine after setCells(AiMap)    *)
(* and start(), with the enemy's Simple strategy registered by the         *)
(* constructor; callers add, remove and switch strategies between calls of *)
(* aiMakeDecisions().                                                      *)
(***************************************************************************)
MaxRegistryCalls == 3
AiPlayers == {"enemy", "player"}
StrategyTypes == {"simple", "aggressive"}

InitRegistry ==
  /\ cells = AiMap
  /\ units = <<>>
  /\ paths = <<>>
  /\ battles = <<>>
  /\ gamePhase = "playing"
  /\ winner = NoId
  /\ gameLoop = "scheduled"
  /\ now = 0
  /\ lastTime = 0
  /\ productionTimer = Zero
  /\ aiTimer = Zero
  /\ strategies = << [playerId |-> "enemy", strategyType |-> "simple"] >>
  /\ nextId = 0
  /\ events = <<>>
  /\ lastCall = "start"
  /\ ret = FALSE
  /\ ticks = 0
  /\ sends = 0
  /\ controls = 0
  /\ probe = NoProbe
  /\ twin = NoTwin
  /\ snapshot = NoSnapshot

(* addAIPlayer({ playerId, strategyType }) *)
AddAIPlayer(playerId, strategyType) ==
  /\ controls < MaxRegistryCalls
  /\ strategies' = mapSet(strategies, playerId, strategyType)
  /\ controls' = controls + 1
  /\ events' = <<>>
  /\ lastCall' = "addAIPlayer"
  /\ UNCHANGED <<cells, units, paths, battles, gamePhase, winner, gameLoop, now, lastTime,
                 productionTimer, aiTimer, nextId, ret, ticks, sends, probe, twin,
                 snapshot>>

(* removeAIPlayer(playerId) *)
RemoveAIPlayer(playerId) ==
  /\ controls < MaxRegistryCalls
  /\ strategies' = mapDelete(strategies, playerId)
  /\ controls' = controls + 1
  /\ events' = <<>>
  /\ lastCall' = "removeAIPlayer"
  /\ UNCHANGED <<cells, units, paths, battles, gamePhase, winner, gameLoop, now, lastTime,
                 productionTimer, aiTimer, nextId, ret, ticks, sends, probe, twin,
                 snapshot>>

(* switchAIStrategy(playerId, strategyType); ret is what it returned *)
SwitchStrategy(playerId, strategyType) ==
  /\ controls < MaxRegistryCalls
  /\ IF ~hasStrategy(strategies, playerId)
     THEN /\ ret' = FALSE
          /\ UNCHANGED strategies
     ELSE /\ strategies' = mapSet(strategies, playerId, strategyType)
          /\ ret' = TRUE
  /\ controls' = controls + 1
  /\ events' = <<>>
  /\ lastCall' = "switchStrategy"
  /\ UNCHANGED <<cells, units, paths, battles, gamePhase, winner, gameLoop, now, lastTime,
                 productionTimer, aiTimer, nextId, ticks, sends, probe, twin, snapshot>>

NextRegistry ==
  \/ \E p \in AiPlayers, ty \in StrategyTypes : AddAIPlayer(p, ty)
  \/ \E p \in AiPlayers : RemoveAIPlayer(p)
  \/ \E p \in AiPlayers, ty \in StrategyTypes : SwitchStrategy(p, ty)
  \/ AiMakeDecisions

SpecRegistry == InitRegistry /\ [][NextRegistry]_vars

(***************************************************************************)
(* C22: the registry holds at most one strategy per player id.  addAIPlayer *)
(* leaves the player with the strategy given, and it alone if the id was   *)
(* registered; removeAIPlayer leaves the player without one; switchStrategy *)
(* returns false and changes nothing for an id that is not registered, and *)
(* returns true and replaces the strategy for one that is; none of them    *)
(* touches the strategy of another player.  An AI pass dispatches no unit  *)
(* of a player that is not in the registry.                                *)
(***************************************************************************)
(* the strategy types registered for a player, in order *)
typesOf(strats, playerId) ==
  LET mine == SelectSeq(strats, LAMBDA e : e.playerId = playerId)
  IN  [k \in 1..Len(mine) |-> mine[k].strategyType]

othersKept(playerId) ==
  \A q \in AiPlayers \ {playerId} : typesOf(strategies', q) = typesOf(strategies, q)

C22_RegistryOnePerPlayer ==
  [][ /\ \A p \in AiPlayers : Len(typesOf(strategies', p)) <= 1
      /\ \A p \in AiPlayers, ty \in StrategyTypes :
           AddAIPlayer(p, ty) => typesOf(strategies', p) = <<ty>> /\ othersKept(p)
      /\ \A p \in AiPlayers :
           RemoveAIPlayer(p) => typesOf(strategies', p) = <<>> /\ othersKept(p)
      /\ \A p \in AiPlayers, ty \in StrategyTypes :
           SwitchStrategy(p, ty) =>
             IF typesOf(strategies, p) = <<>>
             THEN ret' = FALSE /\ strategies' = strategies
             ELSE ret' = TRUE /\ typesOf(strategies', p) = <<ty>> /\ othersKept(p)
      /\ lastCall' = "aiMakeDecisions" =>
           \A p \in AiPlayers :
             typesOf(strategies, p) = <<>> =>
               \A k \in 1..Len(events') :
                 events'[k].type = "units_sent" =>
                   \A u \in 1..Len(units') :
                     units'[u].id = events'[k].unit => units'[u].owner # p
    ]_vars

(* an AI pass has dispatched for the player although the enemy, removed    *)
(* from the registry, holds cells its Simple strategy would attack from    *)
C22_Witness ==
  /\ lastCall = "aiMakeDecisions"
  /\ typesOf(strategies, "enemy") = <<>>
  /\ typesOf(strategies, "player") # <<>>
  /\ hasEvent(events, "units_sent")
  /\ simpleMakeDecisions("enemy", cells) # <<>>

(***************************************************************************)
(* C23: the win check that ends every frame sets phase 'ended' and winner  *)
(* 'enemy', and emits game_ended for the enemy, exactly when no cell is    *)
(* owned by 'player'; it sets 'ended' and 'player', and emits game_ended   *)
(* for the player, exactly when some cell is owned by 'player' and none by *)
(* 'enemy'; otherwise the frame leaves phase and winner as they were.  The *)
(* winner changes in no other step than a frame, and never without the     *)
(* phase being 'ended' after that step.                                    *)
(***************************************************************************)
ownedBy(cs, owner) == \E i \in 1..Len(cs) : cs[i].owner = owner

endedFor(es, who) ==
  \E k \in 1..Len(es) : es[k].type = "game_ended" /\ es[k].winner = who

C23_WinCheck ==
  [][ /\ lastCall' = "tick" =>
           /\ ~ownedBy(cells', "player") =>
                gamePhase' = "ended" /\ winner' = "enemy"
           /\ (ownedBy(cells', "player") /\ ~ownedBy(cells', "enemy")) =>
                gamePhase' = "ended" /\ winner' = "player"
           /\ (ownedBy(cells', "player") /\ ownedBy(cells', "enemy")) =>
                gamePhase' = gamePhase /\ winner' = winner
           /\ endedFor(events', "enemy") <=> ~ownedBy(cells', "player")
           /\ endedFor(events', "player") <=>
                (ownedBy(cells', "player") /\ ~ownedBy(cells', "enemy"))
      /\ winner' # winner => lastCall' = "tick" /\ gamePhase' = "ended"
    ]_vars

(* a frame has ended the game for the player, who holds a cell while the   *)
(* enemy holds none                                                        *)
C23_Witness ==
  /\ lastCall = "tick"
  /\ gamePhase = "ended"
  /\ winner = "player"
  /\ endedFor(events, "player")
  /\ ownedBy(cells, "player")
  /\ ~ownedBy(cells, "enemy")
  /\ ownedBy(cells, "neutral")

(***************************************************************************)
(* C24: k units that reinforced the defenders of a battle count in it from *)
(* then on: after every frame the battle's defenderUnits is k above what   *)
(* the battle step makes of the defenders the battle started with, and a   *)
(* battle the defenders win leaves the cell with the k units on top of     *)
(* the survivors of those it started with.                                 *)
(***************************************************************************)
(* the defenders a battle step leaves of `initial` defenders with the      *)
(* cell's bonus against the battle's attackers at its progress             *)
defendersLeftOf(initial, battle, bonus) ==
  LET force == effectiveForce(battle.attackers, battle.progress)
      final == IF RLt(RMul(initial, bonus), force) THEN Zero
               ELSE RMax(Zero, RSub(initial, RDiv(force, bonus)))
  IN  RMax(Zero, RSub(initial, RMul(RSub(initial, final), battle.progress)))

C24_ReinforcementInfluences ==
  lastCall = "tick" =>
    /\ \A b \in 1..Len(battles) :
         LET battle == battles[b]
             ti == cellIndex(cells, battle.cellId)
         IN  (/\ ti # 0
              /\ ~battle.isNaN
              /\ RLt(Zero, battle.reinforced)
              /\ RLt(Zero, battle.initialDefenderUnits))
               => battle.defenderUnits =
                    RAdd(defendersLeftOf(battle.initialDefenderUnits, battle,
                                         defenseBonusOf(cells[ti])),
                         battle.reinforced)
    /\ \A k \in 1..Len(events) :
         (/\ events[k].type = "battle_ended"
          /\ RLt(Zero, events[k].battle.reinforced)
          /\ RLt(Zero, events[k].battle.initialDefenderUnits))
           => LET battle == events[k].battle
                  ti == cellIndex(events[k].before, battle.cellId)
                  left == defendersLeftOf(battle.initialDefenderUnits, battle,
                                          defenseBonusOf(events[k].before[ti]))
              IN  ~attackersCapture(battle, events[k].before[ti])
                    => RLe(RAdd(R(RFloor(left)), battle.reinforced),
                           events[k].after[ti].units)

(***************************************************************************)
(* A battle seen at short intervals: the engine after setCells(SnapMap)    *)
(* and start(), with frames 0.3 s apart, so that a battle advances by less *)
(* than a tenth of its duration from one frame to the next.                *)
(***************************************************************************)
ShortAdvances == {300}

(* a frame adv ms after the previous one, adv being short *)
TickSoon ==
  /\ gameLoop = "scheduled"
  /\ ticks < MaxTicks
  /\ \E adv \in ShortAdvances :
     \E rnd \in rndChoices(aiDue(frameDelta(adv))) :
     \E pt \in {RAdd(productionTimer, frameDelta(adv))} :
     \E at \in {RAdd(aiTimer, frameDelta(adv))} :
     \E s1 \in {updateUnits(engine, frameDelta(adv), now + adv)} :
     \E s2 \in {updateBattles(s1, now + adv)} :
     \E s3 \in {IF RLe(productionInterval, pt) THEN updateProduction(s2) ELSE s2} :
     \E s4 \in {IF RLe(R(aiInterval), at) THEN updateAI(s3, strategies, rnd) ELSE s3} :
     \E s5 \in {checkWinCondition(s4)} :
           /\ store(s5)
           /\ now' = now + adv
           /\ lastTime' = now + adv
           /\ productionTimer' = IF RLe(productionInterval, pt) THEN Zero ELSE pt
           /\ aiTimer' = IF RLe(R(aiInterval), at) THEN Zero ELSE at
           /\ gameLoop' = IF s5.gamePhase = "playing" THEN "scheduled" ELSE "stale"
  /\ ticks' = ticks + 1
  /\ lastCall' = "tick"
  /\ UNCHANGED <<strategies, ret, sends, controls, probe, twin, snapshot>>

NextRamp ==
  \/ \E a \in {"A", "C"}, c \in SiegeCounts : SendUnits(a, "B", c)
  \/ TickSoon

SpecRamp == InitSnapshot /\ [][NextRamp]_vars

(***************************************************************************)
(* C25: a unit appended to the attackers of a battle that exists carries   *)
(* as joinProgress the progress the battle had when it arrived and as      *)
(* initialUnitCount the count it arrived with; no attacker's joinProgress  *)
(* or initialUnitCount changes afterwards.  After a frame an attacker of a *)
(* battle whose progress is not above its joinProgress has its full        *)
(* initialUnitCount, and the defenders of the battle are what the battle   *)
(* step leaves of them against the sum, over the attackers, of             *)
(* initialUnitCount * min(1, max(0, progress - joinProgress) / 0.1).       *)
(***************************************************************************)
weightAt(attacker, p) ==
  RMul(attacker.initialUnitCount,
       RMin(One, RDiv(RMax(Zero, RSub(p, attacker.joinProgress)), <<1, 10>>)))

(* the defenders left of `initial` at progress p against a total weight *)
defendersAgainst(initial, bonus, total, p) ==
  LET final == IF RLt(RMul(initial, bonus), total) THEN Zero
               ELSE RMax(Zero, RSub(initial, RDiv(total, bonus)))
  IN  RMax(Zero, RSub(initial, RMul(RSub(initial, final), p)))

C25_JoinRecorded ==
  [][ lastCall' = "tick" =>
        \A b \in 1..Len(battles') :
          LET after == battles'[b]
              bi == FindIndex(battles, LAMBDA x : x.id = after.id)
              ti == cellIndex(cells', after.cellId)
              total == RSum([k \in 1..Len(after.attackers) |->
                               weightAt(after.attackers[k], after.progress)])
          IN  /\ bi # 0 =>
                   \A k \in 1..Len(after.attackers) :
                     IF k <= Len(battles[bi].attackers)
                     THEN /\ after.attackers[k].joinProgress
                               = battles[bi].attackers[k].joinProgress
                          /\ after.attackers[k].initialUnitCount
                               = battles[bi].attackers[k].initialUnitCount
                     ELSE /\ after.attackers[k].joinProgress = battles[bi].progress
                          /\ \E u \in 1..Len(units) :
                               /\ units[u].id = after.attackers[k].id
                               /\ after.attackers[k].initialUnitCount = units[u].unitCount
              /\ \A k \in 1..Len(after.attackers) :
                   RLe(after.progress, after.attackers[k].joinProgress)
                     => after.attackers[k].unitCount = after.attackers[k].initialUnitCount
              /\ (ti # 0 /\ ~after.isNaN /\ RLt(Zero, after.initialDefenderUnits))
                   => after.defenderUnits =
                        defendersAgainst(after.initialDefenderUnits,
                                         defenseBonusOf(cells'[ti]), total, after.progress)
    ]_vars

(* a battle holds an attacker that joined it under way and has not been in *)
(* it for a tenth of its progress yet: its weight is part of its count     *)
C25_Witness ==
  /\ lastCall = "tick"
  /\ \E b \in 1..Len(battles) :
       \E k \in 1..Len(battles[b].attackers) :
         /\ k > 1
         /\ RLt(Zero, battles[b].attackers[k].joinProgress)
         /\ RLt(battles[b].attackers[k].joinProgress, battles[b].progress)
         /\ RLt(Zero, weightAt(battles[b].attackers[k], battles[b].progress))
         /\ RLt(weightAt(battles[b].attackers[k], battles[b].progress),
                battles[b].attackers[k].initialUnitCount)
         /\ RLt(Zero, battles[b].initialDefenderUnits)

(***************************************************************************)
(* Any count: the engine after setCells(HeldMap) and start(), where        *)
(* callers pass sendUnits counts below zero as well; it accepts them, as   *)
(* source.units < unitCount is false.                                      *)
(***************************************************************************)
AnyCounts == {-2, -1, 1, 2}

InitHeld ==
  /\ cells = HeldMap
  /\ units = <<>>
  /\ paths = <<>>
  /\ battles = <<>>
  /\ gamePhase = "playing"
  /\ winner = NoId
  /\ gameLoop = "scheduled"
  /\ now = 0
  /\ lastTime = 0
  /\ productionTimer = Zero
  /\ aiTimer = Zero
  /\ strategies = << [playerId |-> "enemy", strategyType |-> "simple"] >>
  /\ nextId = 0
  /\ events = <<>>
  /\ lastCall = "start"
  /\ ret = FALSE
  /\ ticks = 0
  /\ sends = 0
  /\ controls = 0
  /\ probe = NoProbe
  /\ twin = NoTwin
  /\ snapshot = NoSnapshot

NextHeld ==
  \/ \E a \in {"A", "C"}, c \in AnyCounts : SendUnits(a, "B", c)
  \/ Tick

SpecHeld == InitHeld /\ [][NextHeld]_vars

(***************************************************************************)
(* C26: when the attackers of a battle win, the cell goes to the owner of  *)
(* one of them: an owner of the greatest effective force, and among owners *)
(* of equal greatest force the one whose first unit stands earliest in the *)
(* battle's list of attackers.                                             *)
(***************************************************************************)
(* the effective force of an owner's attackers when the battle resolves *)
forceOf(battle, owner) ==
  RSum([k \in 1..Len(battle.attackers) |->
          IF battle.attackers[k].owner = owner
          THEN weightAt(battle.attackers[k], One)
          ELSE Zero])

firstOf(battle, owner) ==
  FindIndex(battle.attackers, LAMBDA a : a.owner = owner)

C26_TieBreak ==
  lastCall = "tick" =>
    \A k \in 1..Len(events) :
      events[k].type = "battle_ended" =>
        LET battle == events[k].battle
            ti == cellIndex(events[k].before, battle.cellId)
            w == events[k].after[ti].owner
        IN  attackersCapture(battle, events[k].before[ti]) =>
              /\ firstOf(battle, w) # 0
              /\ \A a \in 1..Len(battle.attackers) :
                   LET o == battle.attackers[a].owner
                   IN  /\ RLe(forceOf(battle, o), forceOf(battle, w))
                       /\ forceOf(battle, o) = forceOf(battle, w)
                            => firstOf(battle, w) <= firstOf(battle, o)

(***************************************************************************)
(* C27: a transit unit whose progress reaches 1 in a frame, its target     *)
(* cell existing, is gone from the transit list after the frame and has    *)
(* been consumed exactly once: by units_arrived or defenders_reinforced if *)
(* it is of the cell's owner, as one entry of one battle's attackers if it *)
(* is not.  No unit is ever in the transit list and among the attackers of *)
(* a battle at once.                                                       *)
(***************************************************************************)
(* how many events of a type the frame emitted for a unit *)
eventsFor(es, type, unitId) ==
  Len(SelectSeq(es, LAMBDA e : e.type = type /\ e.unit = unitId))

(* how many entries the attackers of the battles bs hold for a unit *)
entriesFor(bs, unitId) ==
  Len(SelectSeq(attackersOfAll(bs), LAMBDA a : a.id = unitId))

inTransit(us, unitId) == \E u \in 1..Len(us) : us[u].id = unitId

C27_ArrivalConsumesOnce ==
  [][ /\ lastCall' = "tick" =>
           \A u \in 1..Len(units) :
             LET unit == units[u]
                 ti == cellIndex(cells, unit.targetCellId)
                 deltaTime == RMin(Rat(now' - lastTime, 1000), maxDeltaTime)
                 reaches == RLe(One, RAdd(unit.progress, RMul(unit.travelSpeed, deltaTime)))
                 merged == eventsFor(events', "units_arrived", unit.id)
                             + eventsFor(events', "defenders_reinforced", unit.id)
                 fighting == entriesFor(battles', unit.id)
                               + entriesFor(completedIn([events |-> events']), unit.id)
             IN  (ti # 0 /\ reaches) =>
                   /\ ~inTransit(units', unit.id)
                   /\ IF cells[ti].owner = unit.owner
                      THEN merged = 1 /\ fighting = 0
                      ELSE merged = 0 /\ fighting = 1
      /\ \A u \in 1..Len(units') : entriesFor(battles', units'[u].id) = 0
    ]_vars

(* in one frame a party has started a battle at a cell and a party of the  *)
(* cell's owner has reinforced its defenders; both have left the transit   *)
(* list                                                                    *)
C27_Witness ==
  /\ lastCall = "tick"
  /\ hasEvent(events, "battle_started")
  /\ hasEvent(events, "defenders_reinforced")
  /\ units = <<>>
  /\ \E b \in 1..Len(battles) : Len(battles[b].attackers) = 1

(***************************************************************************)
(* A cell that changes hands: the engine after setCells(PathMap) and       *)
(* start().  A holds one unit; once it has sent it away a party from C     *)
(* takes the cell, and A dispatches again, for its new owner.              *)
(***************************************************************************)
MaxDispatches == 3

PathMap ==
  << Cell("A", 0, 0, 1, "player", "standard"),
     Cell("B", 100, 0, 4, "player", "standard"),
     Cell("C", 200, 0, 6, "enemy", "standard") >>

PathCounts == {1, 3}

InitPath ==
  /\ cells = PathMap
  /\ units = <<>>
  /\ paths = <<>>
  /\ battles = <<>>
  /\ gamePhase = "playing"
  /\ winner = NoId
  /\ gameLoop = "scheduled"
  /\ now = 0
  /\ lastTime = 0
  /\ productionTimer = Zero
  /\ aiTimer = Zero
  /\ strategies = << [playerId |-> "enemy", strategyType |-> "simple"] >>
  /\ nextId = 0
  /\ events = <<>>
  /\ lastCall = "start"
  /\ ret = FALSE
  /\ ticks = 0
  /\ sends = 0
  /\ controls = 0
  /\ probe = NoProbe
  /\ twin = NoTwin
  /\ snapshot = NoSnapshot

(* sendUnits(sourceCellId, targetCellId, unitCount), up to MaxDispatches times *)
DispatchUnits(sourceCellId, targetCellId, unitCount) ==
  /\ sends < MaxDispatches
  /\ \E curve \in curveChoices(engine, sourceCellId, targetCellId) :
     \E r \in {sendUnits(engine, sourceCellId, targetCellId, R(unitCount), curve)} :
           /\ store(r.s)
           /\ ret' = r.ret
           /\ sends' = IF r.ret THEN sends + 1 ELSE sends
  /\ lastCall' = "sendUnits"
  /\ UNCHANGED <<gameLoop, now, lastTime, productionTimer, aiTimer, strategies,
                 ticks, controls, probe, twin, snapshot>>

NextPath ==
  \/ \E a \in {"A", "C"}, c \in PathCounts :
        DispatchUnits(a, IF a = "A" THEN "B" ELSE "A", c)
  \/ Tick

SpecPath == InitPath /\ [][NextPath]_vars

(***************************************************************************)
(* C28: there is at most one path from a cell to another; a path keeps the *)
(* curve type it was created with; and the path a dispatch travels on is   *)
(* active after the dispatch and owned by the owner of the cell that       *)
(* dispatched, which is the owner of the unit sent.                        *)
(***************************************************************************)
C28_PathPerPair ==
  [][ /\ \A i \in 1..Len(paths') : \A j \in 1..Len(paths') :
           (/\ paths'[i].sourceCellId = paths'[j].sourceCellId
            /\ paths'[i].targetCellId = paths'[j].targetCellId) => i = j
      /\ Len(paths) <= Len(paths')
      /\ \A i \in 1..Len(paths) :
           /\ paths'[i].id = paths[i].id
           /\ paths'[i].type = paths[i].type
      /\ \A k \in 1..Len(events') :
           events'[k].type = "units_sent" =>
             \E u \in 1..Len(units') : \E i \in 1..Len(paths') :
               /\ units'[u].id = events'[k].unit
               /\ paths'[i].id = events'[k].path
               /\ paths'[i].targetCellId = units'[u].targetCellId
               /\ paths'[i].active
               /\ paths'[i].owner = units'[u].owner
    ]_vars

(***************************************************************************)
(* BaseAIStrategy.coordinateAttacks on its own: the proposals of the       *)
(* enemy's cells A, B and C, at most one each as makeDecisions collects    *)
(* them, aimed at X or Y, coordinated by the rules of a strategy.          *)
(***************************************************************************)
MaxProposal == 3

CoordMap(xUnits) ==
  << Cell("A", 0, 0, 8, "enemy", "standard"),
     Cell("B", 0, 100, 8, "enemy", "standard"),
     Cell("C", 0, 200, 8, "enemy", "standard"),
     Cell("X", 100, 0, xUnits, "neutral", "standard"),
     Cell("Y", 100, 200, 2, "player", "standard") >>

(* the last one has no cell Y *)
CoordMaps == {CoordMap(1), CoordMap(3), SubSeq(CoordMap(3), 1, 4)}

Proposal(sourceCellId, targetCellId, unitCount) ==
  [sourceCellId |-> sourceCellId, targetCellId |-> targetCellId,
   unitCount |-> R(unitCount), priority |-> 5, type |-> "attack"]

(* <<>> for a cell that proposes nothing *)
ProposalsOf(sourceCellId) ==
  {<<>>} \cup {<< Proposal(sourceCellId, t, n) >> : t \in {"X", "Y"}, n \in 1..MaxProposal}

DecisionLists ==
  {a \o b \o c : a \in ProposalsOf("A"), b \in ProposalsOf("B"), c \in ProposalsOf("C")}

InitCoordinate ==
  /\ cells \in CoordMaps
  /\ units = <<>>
  /\ paths = <<>>
  /\ battles = <<>>
  /\ gamePhase = "playing"
  /\ winner = NoId
  /\ gameLoop = "scheduled"
  /\ now = 0
  /\ lastTime = 0
  /\ productionTimer = Zero
  /\ aiTimer = Zero
  /\ strategies \in {<< [playerId |-> "enemy", strategyType |-> ty] >> : ty \in StrategyTypes}
  /\ nextId = 0
  /\ events = <<>>
  /\ lastCall = "start"
  /\ ret = FALSE
  /\ ticks = 0
  /\ sends = 0
  /\ controls = 0
  /\ probe \in [decisions : DecisionLists, done : {FALSE}, out : {<<>>}, handed : {<<>>}]
  /\ twin = NoTwin
  /\ snapshot = NoSnapshot

(* coordinateAttacks(decisions, gameState) of the enemy's strategy *)
ApplyCoordinate ==
  /\ ~probe.done
  /\ probe' = [probe EXCEPT
                 !.done = TRUE,
                 !.out = IF strategies[1].strategyType = "aggressive"
                         THEN aggressiveCoordinateAttacks(probe.decisions, cells)
                         ELSE simpleCoordinateAttacks(probe.decisions, cells),
                 !.handed = rulesAppliedTo(probe.decisions)]
  /\ lastCall' = "coordinateAttacks"
  /\ UNCHANGED <<cells, units, paths, battles, gamePhase, winner, gameLoop, now, lastTime,
                 productionTimer, aiTimer, strategies, nextId, events, ret, ticks, sends,
                 controls, twin, snapshot>>

SpecCoordinate == InitCoordinate /\ [][ApplyCoordinate]_vars

(* how many of the decisions aim at the target *)
aimedAt(decisions, targetCellId) ==
  Len(SelectSeq(decisions, LAMBDA d : d.targetCellId = targetCellId))

(* how often the decision occurs among the decisions *)
occurrences(decisions, decision) ==
  Len(SelectSeq(decisions, LAMBDA d : d = decision))

(***************************************************************************)
(* C29: coordinateAttacks hands to applyCoordinationRules only the targets *)
(* that more than one decision aims at; a decision that is alone in aiming *)
(* at its target is in the result, once and as it was; and every decision  *)
(* of the result is a decision of the input, with no more units than it    *)
(* had there.                                                              *)
(***************************************************************************)
C29_CoordinateAttacks ==
  probe.done =>
    /\ \A k \in 1..Len(probe.handed) : aimedAt(probe.decisions, probe.handed[k]) > 1
    /\ \A i \in 1..Len(probe.decisions) :
         aimedAt(probe.decisions, probe.decisions[i].targetCellId) = 1
           => occurrences(probe.out, probe.decisions[i]) = 1
    /\ \A k \in 1..Len(probe.out) :
         \E i \in 1..Len(probe.decisions) :
           /\ probe.out[k].sourceCellId = probe.decisions[i].sourceCellId
           /\ probe.out[k].targetCellId = probe.decisions[i].targetCellId
           /\ probe.out[k].priority = probe.decisions[i].priority
           /\ probe.out[k].type = probe.decisions[i].type
           /\ RLe(probe.out[k].unitCount, probe.decisions[i].unitCount)

(* two proposals against X of which the rules let one through, beside a
   proposal against Y that the rules would have cancelled *)
C29_Witness ==
  /\ probe.done
  /\ strategies[1].strategyType = "simple"
  /\ aimedAt(probe.decisions, "X") = 2
  /\ aimedAt(probe.out, "X") = 1
  /\ aimedAt(probe.decisions, "Y") = 1
  /\ aimedAt(probe.out, "Y") = 1
  /\ probe.handed = << "X" >>
  /\ simpleApplyCoordinationRules(SelectSeq(probe.decisions, LAMBDA d : d.targetCellId = "Y"),
                                  "Y", cells) = <<>>

(***************************************************************************)
(* SimpleAIStrategy.makeDecisions on its own, for the enemy: A and B have  *)
(* the neutral X between them, A has the player's Y nearer or farther than *)
(* X, and C has no cell within the neighbour radius.  Units are wholes,    *)
(* halves and quarters, as dispatches of any count leave them.             *)
(***************************************************************************)
SimpleMap(aUnits, bUnits, xUnits, yAt) ==
  << [Cell("A", 0, 0, 0, "enemy", "standard") EXCEPT !.units = aUnits],
     [Cell("B", 200, 0, 0, "enemy", "standard") EXCEPT !.units = bUnits],
     Cell("C", 0, 2000, 5, "enemy", "standard"),
     [Cell("X", 100, 0, 0, "neutral", "standard") EXCEPT !.units = xUnits],
     Cell("Y", 0, yAt, 1, "player", "standard") >>

SimpleMaps ==
  {SimpleMap(a, b, x, y) : a \in {<<1, 2>>, R(3), R(4), R(7)},
                           b \in {R(1), R(4), R(10)},
                           x \in {R(0), R(1), <<5, 4>>, R(3)},
                           y \in {50, 150}}

InitSimple ==
  /\ cells \in SimpleMaps
  /\ units = <<>>
  /\ paths = <<>>
  /\ battles = <<>>
  /\ gamePhase = "playing"
  /\ winner = NoId
  /\ gameLoop = "scheduled"
  /\ now = 0
  /\ lastTime = 0
  /\ productionTimer = Zero
  /\ aiTimer = Zero
  /\ strategies = << [playerId |-> "enemy", strategyType |-> "simple"] >>
  /\ nextId = 0
  /\ events = <<>>
  /\ lastCall = "start"
  /\ ret = FALSE
  /\ ticks = 0
  /\ sends = 0
  /\ controls = 0
  /\ probe = [done |-> FALSE, out |-> <<>>]
  /\ twin = NoTwin
  /\ snapshot = NoSnapshot

(* makeDecisions(gameState) of the enemy's Simple strategy *)
ApplySimple ==
  /\ ~probe.done
  /\ probe' = [done |-> TRUE, out |-> simpleMakeDecisions("enemy", cells)]
  /\ lastCall' = "makeDecisions"
  /\ UNCHANGED <<cells, units, paths, battles, gamePhase, winner, gameLoop, now, lastTime,
                 productionTimer, aiTimer, strategies, nextId, events, ret, ticks, sends,
                 controls, twin, snapshot>>

SpecSimple == InitSimple /\ [][ApplySimple]_vars

(* the cells of another owner within the neighbour radius of cell c *)
nearOthers(c) ==
  {i \in 1..Len(cells) :
     /\ cells[i].owner # cells[c].owner
     /\ i # c
     /\ distance2(cells[c].position, cells[i].position) <= neighborRange * neighborRange}

(* cell t is the closest of them *)
closestOther(c, t) ==
  /\ t \in nearOthers(c)
  /\ \A j \in nearOthers(c) \ {t} :
       distance2(cells[c].position, cells[t].position)
         < distance2(cells[c].position, cells[j].position)

(* max(1, floor((units - 1) / 2)) *)
halfBelow(c) ==
  LET half == RFloor(RDiv(RSub(cells[c].units, One), R(2)))
  IN  R(IF half < 1 THEN 1 ELSE half)

(* the cells of the owner that propose to attack cell t *)
proposersOf(owner, t) ==
  {c \in 1..Len(cells) :
     /\ cells[c].owner = owner
     /\ closestOther(c, t)
     /\ RLt(RMul(R(3), cells[t].units), cells[c].units)}

(* the decisions contain the attack of cell c on cell t *)
proceeds(decisions, c, t) ==
  \E k \in 1..Len(decisions) :
    /\ decisions[k].sourceCellId = cells[c].id
    /\ decisions[k].targetCellId = cells[t].id
    /\ decisions[k].unitCount = halfBelow(c)

(* the units the proposers of an attack on cell t would send together *)
combinedUnits(owner, t) ==
  LET all == [i \in 1..Len(cells) |-> i]
      from == SelectSeq(all, LAMBDA i : i \in proposersOf(owner, t))
  IN  RSum([k \in 1..Len(from) |-> halfBelow(from[k])])

(***************************************************************************)
(* C30: every decision of the Simple strategy is the attack of an owned    *)
(* cell on its closest cell of another owner within the neighbour radius,  *)
(* made with more than three times that cell's units and sending           *)
(* max(1, floor((units - 1) / 2)); and when two or more cells propose to   *)
(* attack the same target, all of them proceed exactly when together they  *)
(* send at least twice the target's units.                                 *)
(***************************************************************************)
C30_SimpleStrategy ==
  probe.done =>
    /\ \A k \in 1..Len(probe.out) :
         \E c \in 1..Len(cells) : \E t \in 1..Len(cells) :
           /\ c \in proposersOf("enemy", t)
           /\ probe.out[k].sourceCellId = cells[c].id
           /\ probe.out[k].targetCellId = cells[t].id
           /\ probe.out[k].unitCount = halfBelow(c)
    /\ \A t \in 1..Len(cells) :
         Cardinality(proposersOf("enemy", t)) >= 2 =>
           ((\A c \in proposersOf("enemy", t) : proceeds(probe.out, c, t))
              <=> RLe(RMul(R(2), cells[t].units), combinedUnits("enemy", t)))

(* A and B both propose to attack X with too few units together: one proceeds *)
C30_Witness ==
  /\ probe.done
  /\ \E t \in 1..Len(cells) :
       /\ Cardinality(proposersOf("enemy", t)) = 2
       /\ RLt(combinedUnits("enemy", t), RMul(R(2), cells[t].units))
       /\ Cardinality({c \in proposersOf("enemy", t) : proceeds(probe.out, c, t)}) = 1

(***************************************************************************)
(* DefensiveAIStrategy (src/unnamed/part_000)                              *)
(***************************************************************************)
defensiveRange == 200

safeRange == 250

(* BaseAIStrategy.evaluateGameState: the two metrics makeDecisions reads *)
evaluateGameState(playerId, cs) ==
  LET aiCells == SelectSeq(cs, LAMBDA c : c.owner = playerId)
      enemyCells == SelectSeq(cs, LAMBDA c : c.owner # playerId /\ c.owner # "neutral")
      nearbyEnemies(aiCell) ==
        SelectSeq(enemyCells, LAMBDA e :
          distance2(aiCell.position, e.position) < defensiveRange * defensiveRange)
      threatAt(aiCell) ==
        RSum([k \in 1..Len(nearbyEnemies(aiCell)) |-> nearbyEnemies(aiCell)[k].units])
  IN  [totalUnits |-> RSum([i \in 1..Len(aiCells) |-> aiCells[i].units]),
       enemyThreatLevel |-> RSum([i \in 1..Len(aiCells) |-> threatAt(aiCells[i])])]

(* DefensiveAIStrategy.findThreatenedCells *)
findThreatenedCells(playerId, cs, bs) ==
  LET enemyCells == SelectSeq(cs, LAMBDA c : c.owner # playerId /\ c.owner # "neutral")
  IN  SelectSeq(cs, LAMBDA aiCell :
        /\ aiCell.owner = playerId
        /\ \/ \E b \in 1..Len(bs) : bs[b].cellId = aiCell.id
           \/ \E e \in 1..Len(enemyCells) :
                /\ distance2(aiCell.position, enemyCells[e].position)
                     < defensiveRange * defensiveRange
                /\ RLe(RMul(aiCell.units, <<4, 5>>), enemyCells[e].units))

(* DefensiveAIStrategy.addDefensiveReinforcements: the decisions it pushes *)
addDefensiveReinforcements(playerId, cs, bs) ==
  LET aiCells == SelectSeq(cs, LAMBDA c : c.owner = playerId)
      threatenedCells == findThreatenedCells(playerId, cs, bs)
      unitsToSend(reinforcer) == RFloor(RDiv(RSub(reinforcer.units, R(2)), R(2)))
      reinforcers(threatened) ==
        SelectSeq(aiCells, LAMBDA c :
          /\ distance2(c.position, threatened.position) <= neighborRange * neighborRange
          /\ RLt(R(3), c.units)
          /\ c.id # threatened.id
          /\ unitsToSend(c) > 0)
      sent(threatened) ==
        [k \in 1..Len(reinforcers(threatened)) |->
           [sourceCellId |-> reinforcers(threatened)[k].id,
            targetCellId |-> threatened.id,
            unitCount |-> R(unitsToSend(reinforcers(threatened)[k])),
            priority |-> 9,
            type |-> "reinforce"]]
  IN  Flatten([i \in 1..Len(threatenedCells) |-> sent(threatenedCells[i])])

(* DefensiveAIStrategy.findSafeTarget: <<>> for null, else << cell >> *)
findSafeTarget(playerId, sourceCell, cs) ==
  LET neutralCells == SelectSeq(cs, LAMBDA c : c.owner = "neutral")
      enemyCells == SelectSeq(cs, LAMBDA c : c.owner # playerId /\ c.owner # "neutral")
      safeCells == SelectSeq(neutralCells, LAMBDA n :
                     /\ distance2(sourceCell.position, n.position)
                          <= neighborRange * neighborRange
                     /\ \A e \in 1..Len(enemyCells) :
                          ~(distance2(n.position, enemyCells[e].position)
                              < safeRange * safeRange))
      weakest == CHOOSE i \in 1..Len(safeCells) :
                   /\ \A j \in 1..Len(safeCells) : RLe(safeCells[i].units, safeCells[j].units)
                   /\ \A j \in 1..(i - 1) : RLt(safeCells[i].units, safeCells[j].units)
  IN  IF safeCells = <<>> THEN <<>> ELSE << safeCells[weakest] >>

(* DefensiveAIStrategy.addSafeExpansion: the decisions it pushes *)
addSafeExpansion(playerId, cs) ==
  LET aiCells == SelectSeq(cs, LAMBDA c : c.owner = playerId)
      expansion(aiCell) ==
        IF RLe(aiCell.units, R(5)) THEN <<>>
        ELSE LET safeTarget == findSafeTarget(playerId, aiCell, cs)
             IN  IF safeTarget = <<>> THEN <<>>
                 ELSE IF RLt(RAdd(RMul(safeTarget[1].units, R(5)), R(3)), aiCell.units)
                 THEN << [sourceCellId |-> aiCell.id,
                          targetCellId |-> safeTarget[1].id,
                          unitCount |-> R(RFloor(RDiv(RSub(aiCell.units, R(3)), R(3)))),
                          priority |-> 3,
                          type |-> "expand"] >>
                 ELSE <<>>
  IN  Flatten([i \in 1..Len(aiCells) |-> expansion(aiCells[i])])

(* the decisions makeDecisions hands to coordinateAttacks *)
defensiveDecisions(playerId, cs, bs) ==
  LET metrics == evaluateGameState(playerId, cs)
  IN  addDefensiveReinforcements(playerId, cs, bs)
        \o (IF RLt(metrics.enemyThreatLevel, RMul(metrics.totalUnits, <<3, 10>>))
            THEN addSafeExpansion(playerId, cs) ELSE <<>>)

(* DefensiveAIStrategy.applyCoordinationRules *)
defensiveApplyCoordinationRules(playerId, attackers, targetCellId, cs) ==
  LET ti == cellIndex(cs, targetCellId)
      totalUnits == RSum([i \in 1..Len(attackers) |-> attackers[i].unitCount])
  IN  IF ti = 0 THEN attackers
      ELSE IF cs[ti].owner = playerId THEN attackers
      ELSE IF RLe(RMul(cs[ti].units, R(4)), totalUnits) THEN attackers
      ELSE <<>>

(* the Defensive strategy's config.coordinationLevel, 0.4 *)
defensiveCoordinationLevel == <<2, 5>>

(* BaseAIStrategy.coordinateAttacks with the Defensive strategy's config and rules *)
defensiveCoordinateAttacks(playerId, decisions, cs) ==
  LET planned == plannedAttacks(decisions)
  IN  IF RLt(defensiveCoordinationLevel, <<1, 2>>) THEN decisions
      ELSE Flatten([i \in 1..Len(planned) |->
                      IF Len(planned[i].attackers) = 1 THEN planned[i].attackers
                      ELSE defensiveApplyCoordinationRules(playerId, planned[i].attackers,
                                                           planned[i].targetCellId, cs)])

(* DefensiveAIStrategy.makeDecisions *)
defensiveMakeDecisions(playerId, cs, bs) ==
  defensiveCoordinateAttacks(playerId, defensiveDecisions(playerId, cs, bs), cs)

(***************************************************************************)
(* DefensiveAIStrategy.makeDecisions on its own, for the enemy: A and B    *)
(* have the neutral X between them, out of reach of the player; C is next  *)
(* to A and within reach of the player's P.                                *)
(***************************************************************************)
DefensiveMap(aUnits, bUnits, xUnits, pUnits) ==
  << Cell("A", 0, 0, aUnits, "enemy", "standard"),
     Cell("B", 200, 0, bUnits, "enemy", "standard"),
     Cell("C", 0, 170, 2, "enemy", "standard"),
     Cell("X", 100, 0, xUnits, "neutral", "standard"),
     Cell("P", 0, 360, pUnits, "player", "standard") >>

DefensiveMaps ==
  {DefensiveMap(a, b, x, p) : a \in {4, 9, 14, 19}, b \in {9, 14, 19},
                              x \in {0, 1, 2, 3}, p \in {1, 4, 40}}

InitDefensive ==
  /\ cells \in DefensiveMaps
  /\ units = <<>>
  /\ paths = <<>>
  /\ battles = <<>>
  /\ gamePhase = "playing"
  /\ winner = NoId
  /\ gameLoop = "scheduled"
  /\ now = 0
  /\ lastTime = 0
  /\ productionTimer = Zero
  /\ aiTimer = Zero
  /\ strategies = << [playerId |-> "enemy", strategyType |-> "defensive"] >>
  /\ nextId = 0
  /\ events = <<>>
  /\ lastCall = "start"
  /\ ret = FALSE
  /\ ticks = 0
  /\ sends = 0
  /\ controls = 0
  /\ probe = [done |-> FALSE, proposed |-> <<>>, out |-> <<>>]
  /\ twin = NoTwin
  /\ snapshot = NoSnapshot

(* makeDecisions(gameState) of the enemy's Defensive strategy *)
ApplyDefensive ==
  /\ ~probe.done
  /\ probe' = [done |-> TRUE,
               proposed |-> defensiveDecisions("enemy", cells, battles),
               out |-> defensiveMakeDecisions("enemy", cells, battles)]
  /\ lastCall' = "makeDecisions"
  /\ UNCHANGED <<cells, units, paths, battles, gamePhase, winner, gameLoop, now, lastTime,
                 productionTimer, aiTimer, strategies, nextId, events, ret, ticks, sends,
                 controls, twin, snapshot>>

SpecDefensive == InitDefensive /\ [][ApplyDefensive]_vars

(* the units the decisions send to the target together *)
unitsAimedAt(decisions, targetCellId) ==
  LET group == SelectSeq(decisions, LAMBDA d : d.targetCellId = targetCellId)
  IN  RSum([k \in 1..Len(group) |-> group[k].unitCount])

(***************************************************************************)
(* C31: the decisions of the Defensive strategy never hold two or more     *)
(* decisions against the same cell of another owner that send less than    *)
(* four times that cell's units together, and every decision it had        *)
(* prepared that reinforces a cell of its own is among them.               *)
(***************************************************************************)
C31_DefensiveCancels ==
  probe.done =>
    /\ \A t \in 1..Len(cells) :
         (cells[t].owner # "enemy" /\ aimedAt(probe.out, cells[t].id) >= 2)
           => RLe(RMul(R(4), cells[t].units), unitsAimedAt(probe.out, cells[t].id))
    /\ \A i \in 1..Len(probe.proposed) :
         (\E t \in 1..Len(cells) : /\ cells[t].id = probe.proposed[i].targetCellId
                                   /\ cells[t].owner = "enemy")
           => occurrences(probe.out, probe.proposed[i]) = 1

(***************************************************************************)
(* SwarmAIStrategy (src/src/engine/strategies/SwarmAIStrategy.ts)          *)
(***************************************************************************)
swarmRange == 350

maxSwarmSize == 5

(* BaseAIStrategy.calculateDistance, where the distance is a whole number  *)
(* (the cells of the maps below lie on one line)                           *)
calculateDistance(p, q) ==
  CHOOSE d \in 0..(Abs(q[1] - p[1]) + Abs(q[2] - p[2])) : d * d = distance2(p, q)

(* Array.prototype.sort with (a, b) => key(b) - key(a): greatest key first, *)
(* equal keys in their order (the sort is stable)                           *)
sortDescending(seq, keys) ==
  LET rank(i) == Cardinality({j \in 1..Len(seq) :
                                \/ RLt(keys[i], keys[j])
                                \/ (keys[j] = keys[i] /\ j < i)}) + 1
  IN  [r \in 1..Len(seq) |-> seq[CHOOSE i \in 1..Len(seq) : rank(i) = r]]

(* floor((cell.units - 1) / 2) *)
availableUnitsOf(cell) == R(RFloor(RDiv(RSub(cell.units, One), R(2))))

(* the cells that can join a swarm against the target *)
swarmAttackers(target, aiCells) ==
  SelectSeq(aiCells, LAMBDA c :
    /\ calculateDistance(c.position, target.position) <= swarmRange
    /\ RLt(R(2), c.units))

(* SwarmAIStrategy.analyzeSwarmTargets: the targets, highest priority first *)
analyzeSwarmTargets(playerId, cs) ==
  LET enemyCells == SelectSeq(cs, LAMBDA c : c.owner # playerId /\ c.owner # "neutral")
      neutralCells == SelectSeq(cs, LAMBDA c : c.owner = "neutral")
      aiCells == SelectSeq(cs, LAMBDA c : c.owner = playerId)
      analysed == SelectSeq(enemyCells \o neutralCells,
                            LAMBDA target : Len(swarmAttackers(target, aiCells)) >= 2)
      priorityOf(target) ==
        LET potentialAttackers == swarmAttackers(target, aiCells)
            totalSwarmForce == RSum([k \in 1..Len(potentialAttackers) |->
                                       availableUnitsOf(potentialAttackers[k])])
            forceRatio_ == RDiv(totalSwarmForce, RMax(One, target.units))
            strategicValue == IF target.owner = "neutral" THEN R(1) ELSE R(2)
            productionValue == OrElse(CellTypes[target.type].productionMultiplier, One)
        IN  RMul(RMul(RMul(forceRatio_, R(Len(potentialAttackers))), strategicValue),
                 productionValue)
  IN  sortDescending(analysed, [i \in 1..Len(analysed) |-> priorityOf(analysed[i])])

(* SwarmAIStrategy.calculateSwarmContribution *)
calculateSwarmContribution(attacker, currentSwarmForce, requiredForce, maxAvailable) ==
  LET remainingNeeded == RMax(Zero, RSub(requiredForce, currentSwarmForce))
      optimalContribution ==
        RMin(RMin(maxAvailable, R(RCeil(RDiv(remainingNeeded, R(3))))),
             RSub(attacker.units, One))
  IN  RMax(Zero, optimalContribution)

(* the loop of planSwarmAttack over the attackers from position k on *)
RECURSIVE swarmLoop(_, _, _, _, _, _)
swarmLoop(sorted, k, target, requiredTotalForce, totalSwarmForce, swarmDecisions) ==
  IF k > Len(sorted) \/ Len(swarmDecisions) >= maxSwarmSize
  THEN [decisions |-> swarmDecisions, force |-> totalSwarmForce]
  ELSE LET unitsToSend == calculateSwarmContribution(sorted[k], totalSwarmForce,
                            requiredTotalForce, availableUnitsOf(sorted[k]))
           decision == [sourceCellId |-> sorted[k].id,
                        targetCellId |-> target.id,
                        unitCount |-> unitsToSend,
                        priority |-> 8,
                        type |-> "attack"]
       IN  IF ~RLt(Zero, unitsToSend)
           THEN swarmLoop(sorted, k + 1, target, requiredTotalForce, totalSwarmForce,
                          swarmDecisions)
           ELSE IF RLe(requiredTotalForce, RAdd(totalSwarmForce, unitsToSend))
           THEN [decisions |-> Append(swarmDecisions, decision),
                 force |-> RAdd(totalSwarmForce, unitsToSend)]
           ELSE swarmLoop(sorted, k + 1, target, requiredTotalForce,
                          RAdd(totalSwarmForce, unitsToSend),
                          Append(swarmDecisions, decision))

(* SwarmAIStrategy.planSwarmAttack *)
planSwarmAttack(target, availableAttackers) ==
  LET attackers == swarmAttackers(target, availableAttackers)
      defenseBonus == OrElse(CellTypes[target.type].defenseBonus, One)
      effectiveDefense == RMul(target.units, defenseBonus)
      requiredTotalForce == R(RCeil(RMul(effectiveDefense, <<9, 5>>)))
      efficiency(a) ==
        RDiv(availableUnitsOf(a),
             RAdd(Rat(calculateDistance(a.position, target.position), 100), One))
      sorted == sortDescending(attackers, [i \in 1..Len(attackers) |-> efficiency(attackers[i])])
      swarm == swarmLoop(sorted, 1, target, requiredTotalForce, Zero, <<>>)
  IN  IF Len(attackers) < 2 THEN <<>>
      ELSE IF /\ Len(swarm.decisions) >= 2
              /\ RLe(RMul(requiredTotalForce, <<9, 10>>), swarm.force)
      THEN swarm.decisions
      ELSE <<>>

(* SwarmAIStrategy.makeDecisions *)
swarmMakeDecisions(playerId, cs) ==
  LET aiCells == SelectSeq(cs, LAMBDA c : c.owner = playerId)
      targetPriorities == analyzeSwarmTargets(playerId, cs)
      top == SubSeq(targetPriorities, 1, IF Len(targetPriorities) < 2
                                         THEN Len(targetPriorities) ELSE 2)
  IN  Flatten([i \in 1..Len(top) |-> planSwarmAttack(top[i], aiCells)])

(***************************************************************************)
(* SwarmAIStrategy.makeDecisions on its own, for the enemy: A to E lie on  *)
(* a line between the player's fortress Y and the neutral X, all within    *)
(* the swarm range of both.                                                *)
(***************************************************************************)
SwarmMap(us, xUnits, yUnits) ==
  << Cell("A", 0, 0, us[1], "enemy", "standard"),
     Cell("B", 60, 0, us[2], "enemy", "standard"),
     Cell("C", 120, 0, us[3], "enemy", "standard"),
     Cell("D", 180, 0, us[4], "enemy", "standard"),
     Cell("E", 240, 0, us[5], "enemy", "standard"),
     Cell("X", 300, 0, xUnits, "neutral", "standard"),
     Cell("Y", -50, 0, yUnits, "player", "fortress") >>

SwarmUnits == {2, 9, 11}

SwarmMaps ==
  {SwarmMap(us, x, y) : us \in [1..5 -> SwarmUnits], x \in {1, 6, 7}, y \in {1, 4}}

InitSwarm ==
  /\ cells \in SwarmMaps
  /\ units = <<>>
  /\ paths = <<>>
  /\ battles = <<>>
  /\ gamePhase = "playing"
  /\ winner = NoId
  /\ gameLoop = "scheduled"
  /\ now = 0
  /\ lastTime = 0
  /\ productionTimer = Zero
  /\ aiTimer = Zero
  /\ strategies = << [playerId |-> "enemy", strategyType |-> "swarm"] >>
  /\ nextId = 0
  /\ events = <<>>
  /\ lastCall = "start"
  /\ ret = FALSE
  /\ ticks = 0
  /\ sends = 0
  /\ controls = 0
  /\ probe = [done |-> FALSE, out |-> <<>>]
  /\ twin = NoTwin
  /\ snapshot = NoSnapshot

(* makeDecisions(gameState) of the enemy's Swarm strategy *)
ApplySwarm ==
  /\ ~probe.done
  /\ probe' = [done |-> TRUE, out |-> swarmMakeDecisions("enemy", cells)]
  /\ lastCall' = "makeDecisions"
  /\ UNCHANGED <<cells, units, paths, battles, gamePhase, winner, gameLoop, now, lastTime,
                 productionTimer, aiTimer, strategies, nextId, events, ret, ticks, sends,
                 controls, twin, snapshot>>

SpecSwarm == InitSwarm /\ [][ApplySwarm]_vars

(***************************************************************************)
(* C32: the decisions the Swarm strategy returns against one target are    *)
(* none, or between 2 and 5 decisions of different cells of the AI, each   *)
(* leaving at least 1 unit in its cell, that send together at least 1.8    *)
(* times the target's units times its defense bonus.                       *)
(***************************************************************************)
C32_SwarmGroups ==
  probe.done =>
    \A t \in 1..Len(cells) :
      LET group == SelectSeq(probe.out, LAMBDA d : d.targetCellId = cells[t].id)
      IN  group # <<>> =>
            /\ Len(group) >= 2
            /\ Len(group) <= 5
            /\ \A i \in 1..Len(group) : \A j \in 1..Len(group) :
                 group[i].sourceCellId = group[j].sourceCellId => i = j
            /\ \A i \in 1..Len(group) :
                 \E c \in 1..Len(cells) :
                   /\ cells[c].id = group[i].sourceCellId
                   /\ cells[c].owner = "enemy"
                   /\ RLe(One, RSub(cells[c].units, group[i].unitCount))
            /\ RLe(RMul(RMul(cells[t].units, CellTypes[cells[t].type].defenseBonus), <<9, 5>>),
                   unitsAimedAt(probe.out, cells[t].id))

(***************************************************************************)
(* C33: no cell ever holds a negative number of units, whatever the        *)
(* arguments of sendUnits were, and the cell of a battle holds at least 1  *)
(* unit when the battle has been resolved.                                 *)
(***************************************************************************)
C33_UnitsNonNegative ==
  /\ \A i \in 1..Len(cells) : RLe(Zero, cells[i].units)
  /\ lastCall = "tick" =>
       \A k \in 1..Len(events) :
         events[k].type = "battle_ended" =>
           LET ti == cellIndex(events[k].after, events[k].battle.cellId)
           IN  ti # 0 => RLe(One, events[k].after[ti].units)

(***************************************************************************)
(* C34: from one frame to the next no attacker of a battle holds more      *)
(* units than it held, also when further units have joined the battle in   *)
(* between, and the battle's defenderUnits do not grow unless the frame    *)
(* reinforced the defenders.                                               *)
(***************************************************************************)
C34_AttritionMonotone ==
  [][ lastCall' = "tick" =>
        \A b \in 1..Len(battles) : \A c \in 1..Len(battles') :
          (battles'[c].id = battles[b].id /\ ~battles[b].isNaN) =>
            /\ \A i \in 1..Len(battles[b].attackers) :
               \A j \in 1..Len(battles'[c].attackers) :
                 battles'[c].attackers[j].id = battles[b].attackers[i].id
                   => RLe(battles'[c].attackers[j].unitCount,
                          battles[b].attackers[i].unitCount)
            /\ (~hasEvent(events', "defenders_reinforced")
                  => RLe(battles'[c].defenderUnits, battles[b].defenderUnits))
    ]_vars

(***************************************************************************)
(* C35: a siege duplicates no units.  A neutral cell has no production, so *)
(* when its battle was never reinforced the units it lacks at the          *)
(* resolution, with respect to those it held when the battle started, are  *)
(* the k units it dispatched during the battle.  If the defenders win, the *)
(* units the cell is left with and those k do not exceed the units it held *)
(* when the battle started.                                                *)
(***************************************************************************)
(* the units the cell of the battle sent away while the battle lasted *)
dispatchedDuring(e) ==
  RSub(e.battle.initialDefenderUnits, cellIn(e.before, e.battle.cellId).units)

C35_NoDuplication ==
  lastCall = "tick" =>
    \A i \in 1..Len(endedBattles) :
      LET e == endedBattles[i]
      IN  (/\ cellIn(e.before, e.battle.cellId).owner = "neutral"
           /\ ~captured(e)
           /\ e.battle.reinforced = Zero
           /\ ~e.battle.isNaN
           /\ RLt(Zero, dispatchedDuring(e)))
            => RLe(RAdd(cellIn(e.after, e.battle.cellId).units, dispatchedDuring(e)),
                   e.battle.initialDefenderUnits)

(***************************************************************************)
(* C36: a production cycle leaves no cell with fewer units than it had,    *)
(* whether or not the cell's type has a cap and the cell is above it.      *)
(***************************************************************************)
C36_ProductionNeverDecreases ==
  [][lastCall' = "updateProduction" =>
       /\ Len(cells') = Len(cells)
       /\ \A ci \in 1..Len(cells) : RLe(cells[ci].units, cells'[ci].units)]_vars

(***************************************************************************)
(* A pause: the siege of SnapMap with stop() and start(), and the clock    *)
(* running on while the loop is stopped.                                   *)
(***************************************************************************)
(* Milliseconds of wall-clock time that pass while the game is paused *)
PauseLengths == {1900}

(* Date.now() moves on after stop(); no method of the engine runs *)
Elapse ==
  /\ gameLoop = "none"
  /\ lastCall = "stop"
  /\ \E pause \in PauseLengths : now' = now + pause
  /\ events' = <<>>
  /\ lastCall' = "elapse"
  /\ UNCHANGED <<cells, units, paths, battles, gamePhase, winner, gameLoop, lastTime,
                 productionTimer, aiTimer, strategies, nextId, ret, ticks, sends, controls,
                 probe, twin, snapshot>>

NextPause ==
  \/ \E c \in SiegeCounts : SendUnits("A", "B", c)
  \/ Tick
  \/ Stop
  \/ Elapse
  \/ Start

SpecPause == InitSnapshot /\ [][NextPause]_vars

(***************************************************************************)
(* C37: while the game is paused no battle and no transit unit changes,    *)
(* and the first frame after start() advances every battle from the        *)
(* progress it had at the pause by the time that has passed since start(), *)
(* a battle that is gone after the frame having reached full progress by   *)
(* that.                                                                   *)
(***************************************************************************)
progressAfterResume(battle) ==
  RMin(One, RAdd(battle.progress, RDiv(R(now' - lastTime), battle.duration.val)))

C37_PauseFreezes ==
  [][ /\ lastCall' \in {"stop", "elapse", "start"} => battles' = battles /\ units' = units
      /\ (lastCall = "start" /\ lastCall' = "tick") =>
           \A b \in 1..Len(battles) :
             battles[b].duration.kind = "num" =>
               IF \E c \in 1..Len(battles') : battles'[c].id = battles[b].id
               THEN \A c \in 1..Len(battles') :
                      battles'[c].id = battles[b].id
                        => battles'[c].progress = progressAfterResume(battles[b])
               ELSE progressAfterResume(battles[b]) = One
    ]_vars

(***************************************************************************)
(* C38: the phase "ended" is terminal.  Once a win check has set the phase *)
(* "ended" and a winner, no further frame runs, game_ended is not emitted  *)
(* again, and no later start(), stop(), sendUnits() or setCells() changes  *)
(* the phase or the winner.                                                *)
(***************************************************************************)
C38_EndedTerminal ==
  [][(gamePhase = "ended" /\ winner # NoId) =>
       /\ gamePhase' = "ended"
       /\ winner' = winner
       /\ lastCall' # "tick"
       /\ ~hasEvent(events', "game_ended")]_vars

(***************************************************************************)
(* C39: the events of every battle are ordered.  battle_started is emitted *)
(* exactly once, before any battle_progress of the battle; battle_ended is *)
(* emitted exactly once, and no battle_progress of the battle follows it;  *)
(* cell_captured for the battle's cell is emitted, before battle_ended, if *)
(* and only if the resolution changed the cell's owner.                    *)
(* A battle is in the list of battles from its battle_started until the    *)
(* frame that completes it, and identifiers are never reused, so the       *)
(* history of a battle is read from the list before and after a call and   *)
(* from the events of the call.                                            *)
(***************************************************************************)
(* the positions among the events es of the events of the given type that  *)
(* name battle id                                                          *)
battleEventsAt(es, type, id) ==
  { k \in 1..Len(es) :
      /\ es[k].type = type
      /\ (IF type = "battle_ended" THEN es[k].battle.id ELSE es[k].battle) = id }

battleIds(bs) == { bs[b].id : b \in 1..Len(bs) }

(* the battles that an event of the call names *)
battlesNamed(es) ==
  { (IF es[k].type = "battle_ended" THEN es[k].battle.id ELSE es[k].battle) :
      k \in { j \in 1..Len(es) :
                es[j].type \in {"battle_started", "battle_progress", "battle_ended"} } }

C39_BattleEventOrder ==
  [][\A id \in battleIds(battles) \cup battleIds(battles') \cup battlesNamed(events') :
       LET started == battleEventsAt(events', "battle_started", id)
           progress == battleEventsAt(events', "battle_progress", id)
           ended == battleEventsAt(events', "battle_ended", id)
       IN  \* started exactly once, before any progress
           /\ IF id \in battleIds(battles) THEN started = {} ELSE Cardinality(started) = 1
           /\ \A i \in started, k \in progress : i < k
           \* ended exactly once, in the call that takes it off the list
           /\ IF id \in battleIds(battles') THEN ended = {} ELSE Cardinality(ended) = 1
           /\ \A k \in progress, j \in ended : k < j
           \* captured, just before ended, exactly when the owner changed
           /\ \A j \in ended :
                LET e == events'[j]
                    announced == /\ j > 1
                                /\ events'[j - 1].type = "cell_captured"
                                /\ events'[j - 1].cellId = e.battle.cellId
                IN  captured(e) <=> announced
    ]_vars

====
